---- MODULE Spec2Model ----
(***************************************************************************)
(* The cancellable four-level hash wheel timer of commlib-sys              *)
(* (hash_wheel_timer/wheels/cancellable.rs): a quad wheel with overflow    *)
(* that stores weak handles, and a side table `timers` of strong handles.  *)
(*                                                                         *)
(* The inner quad wheel (wheels::quad_wheel) is not part of the sources at *)
(* hand; it is modelled from the specification (sections 3 and 4.1, 4.2),  *)
(* read so that the tests of cancellable.rs pass: a byte wheel advances    *)
(* its index and then drains the newly current slot (the spec's cascade    *)
(* rule), so that a delay of one tick fires on the very next tick.         *)
(* An entry is placed by its absolute due tick: in the wheel of the most   *)
(* significant byte in which the due tick differs from the tick counter,   *)
(* which is the spec's "most significant non-zero byte of d" whenever      *)
(* adding d carries into no higher byte (a due tick that lies a revolution *)
(* ahead in the top wheel's current slot stays in the top wheel).          *)
(*                                                                         *)
(* The timer drivers (simulation driver, thread driver with its command    *)
(* channel) are not part of the sources either; the last part of the       *)
(* module models them from the specification (sections 4.4 to 7) on top of *)
(* the cancellable wheel.                                                  *)
(*                                                                         *)
(* The rest of the module covers the code around the timer: the data       *)
(* tables and the schema loader of commlib-sys (data_schema.rs), the       *)
(* configuration manager of commlib-sys-test (config_manager.rs) and the   *)
(* App of app-helper (app_helper.rs), each with a specification of its own *)
(* that leaves the timer untouched.                                        *)
(***************************************************************************)
EXTENDS Integers, Sequences, FiniteSets, TLC

\* ---------------------------------------------------------------- bounds
\* Slots of one byte wheel: 256 in the program, scaled down here.
WheelSize == 2
\* Strong handles (Arc allocations) the caller ever creates.
NumHandles == 2
\* Entry ids in use.
NumIds == 2
\* Weak handles the wheel and the overflow list hold at once.
MaxPending == 2
\* Calls the caller makes in one run.
MaxCalls == 6

\* The wheel has four levels (cancellable.rs, "four-level byte-sized wheel").
NumLevels == 4

Levels == 0..(NumLevels - 1)
SlotIdx == 0..(WheelSize - 1)
Handles == 1..NumHandles
Ids == 1..NumIds
NoHandle == 0
NoEntry == [id |-> 0, delay |-> 0]

\* One full revolution of the four wheels: 2^32 ticks in the program.
Cycle == WheelSize ^ NumLevels

\* Delays (in ticks) the caller inserts with: zero, one tick, a delay that
\* reaches the higher wheels, and one that goes to the overflow list.
Delays == {0, 1, WheelSize + 1, Cycle + 1}

VARIABLES
    wheel,      \* the inner quad wheel: [idx, slots, overflow]
    timers,     \* id -> strong handle (NoHandle: id absent)
    ents,       \* handle -> the entry it owns: [id, delay]
    held,       \* handles of which the caller holds a strong reference
    lastOp,     \* the last call made: [op, id, ok, pre]; pre is what
                \* can_skip() answered right before a tick
    lastRes,    \* the list the last tick() returned
    call,       \* handle -> its most recent successful insertion
    calls       \* number of calls made so far

\* The timer driver that owns the wheel (none when the wheel is called
\* directly, as in the tests of cancellable.rs).
VARIABLES
    mode,       \* "none", "sim" (simulation driver) or "thread"
    cbs,        \* handle -> its callback: [shape, initial, period, fired, ...]
    chan,       \* the thread driver's command channel, oldest first
    todo,       \* entries the worker's tick returned, not yet dispatched
    running,    \* the entry whose callback the worker is executing
    phase,      \* "open", "closing" (shutdown called) or "closed" (joined)
    wpc,        \* the worker: "run" or "done"
    dlog        \* history: [sent, done, api]

dvars == <<mode, cbs, chan, todo, running, phase, wpc, dlog>>

\* The configuration tables of commlib-sys-test (config_manager.rs).
VARIABLES
    config_tables,  \* ConfigManager::config_tables: the cids registered
    datas,          \* RoleTable::datas: id -> name ("" when absent)
    g_config,       \* the GConfigTable singleton: [id, a1, s1]
    cfgOp           \* the last call: [op, ds, tables, pre, ok]

cvars == <<config_tables, datas, g_config, cfgOp>>

\* A data table of commlib-sys (data_schema.rs) and the reads made of it.
VARIABLES
    table,      \* a DataTable: [name, fields, rows, field_index, rows_by_pk]
    getOp       \* the last call: [op, row, column, res]

bvars == <<table, getOp>>

\* DataSchemaLoader (data_schema.rs) and the service it posts to.
VARIABLES
    need_load_tables,   \* the files to read, in directory order
    pos,                \* files read so far
    dc,                 \* the DataSchema being filled: name -> DataTable
    lpc,                \* the loader: "new", "read", "post" or "done"
    tasks,              \* tasks handed to run_in_service, not yet run
    runs                \* executions of the user callback: [by, ds, posted]

lvars == <<need_load_tables, pos, dc, lpc, tasks, runs>>

\* App (app_helper.rs) and the services attached to it.
VARIABLES
    services,   \* App::services: the service objects added, in order
    started,    \* service objects that start_service has started
    nstate,     \* service object -> the NodeState of its handle
    apc,        \* the thread that owns the App: "setup", "wait" (in
                \* cvar.wait), "woken" or "returned" (run is over)
    joined,     \* service object -> number of join() calls made on it
    appOp       \* the last call on the App: [op, srv, pre, checked]

avars == <<services, started, nstate, apc, joined, appOp>>

\* Everything outside the timer.
xvars == <<cvars, bvars, lvars, avars>>

\* The timer and its driver.
tvars == <<wheel, timers, ents, held, lastOp, lastRes, call, calls, dvars>>

vars == <<tvars, xvars>>

\* ------------------------------------------------------- inner quad wheel

Digit(n, k) == (n \div (WheelSize ^ k)) % WheelSize

\* The tick counter (i3, i2, i1, i0) within the current revolution.
Now(w) == w.idx[0] + w.idx[1] * WheelSize + w.idx[2] * WheelSize ^ 2
          + w.idx[3] * WheelSize ^ 3

EmptyWheel ==
    [idx |-> [k \in Levels |-> 0],
     slots |-> [k \in Levels |-> [s \in SlotIdx |-> <<>>]],
     overflow |-> <<>>]

\* Most significant level in which the ticks a and b differ (a # b).
TopDiff(a, b) == CHOOSE k \in Levels :
    /\ Digit(a, k) # Digit(b, k)
    /\ \A j \in Levels : j > k => Digit(a, j) = Digit(b, j)

\* insert_with_delay: [ok, w]; ok = FALSE is Expired (the entry comes back).
InsertWithDelay(w, e, d) ==
    IF d = 0 THEN [ok |-> FALSE, w |-> w]
    ELSE IF d >= Cycle
    THEN [ok |-> TRUE,
          w |-> [w EXCEPT !.overflow = Append(@, [e |-> e, tick |-> Now(w) + d])]]
    ELSE LET due == (Now(w) + d) % Cycle
             top == NumLevels - 1
             \* a due tick one revolution ahead in the top wheel's current
             \* slot waits there for the top wheel to come round
             k == IF Now(w) + d >= Cycle /\ Digit(due, top) = w.idx[top]
                  THEN top
                  ELSE TopDiff(due, Now(w))
         IN [ok |-> TRUE,
             w |-> [w EXCEPT !.slots[k][Digit(due, k)] =
                        Append(@, [e |-> e, rest |-> due % (WheelSize ^ k)])]]

\* A pruner that keeps every weak handle, dead or alive.
rc_prune_keeps(strong_count) == "Keep"

\* A pruner with the two answers swapped.
rc_prune_swapped(strong_count) == IF strong_count > 0 THEN "Drop" ELSE "Keep"

\* The pruner of the cancellable wheel: keep what can still be upgraded.
rc_prune(strong_count) == IF strong_count > 0 THEN "Keep" ELSE "Drop"

\* Re-place the drained entries `bucket` (each [e, d]: d ticks still to go)
\* that the pruner keeps; an entry with nothing left to go expires.
RECURSIVE PlaceAll(_, _, _, _)
PlaceAll(w, bucket, res, strong) ==
    IF bucket = <<>> THEN [w |-> w, res |-> res]
    ELSE LET x == Head(bucket)
             r == InsertWithDelay(w, x.e, x.d)
         IN IF rc_prune(IF x.e \in strong THEN 1 ELSE 0) = "Drop"
            THEN PlaceAll(w, Tail(bucket), res, strong)
            ELSE IF r.ok
            THEN PlaceAll(r.w, Tail(bucket), res, strong)
            ELSE PlaceAll(w, Tail(bucket), Append(res, x.e), strong)

RECURSIVE TickLevel(_, _, _, _)

\* After wheel k has moved to slot i and r = [w, res] is what re-placing the
\* drained slot left: a wheel that wrapped (i = 0) cascades into the next
\* wheel, the last one into the overflow list.
Cascade(r, i, k, strong) ==
    IF i # 0 THEN r
    ELSE IF k < NumLevels - 1 THEN TickLevel(r.w, k + 1, r.res, strong)
    ELSE PlaceAll([r.w EXCEPT !.overflow = <<>>],
                  [j \in 1..Len(r.w.overflow) |->
                      [e |-> r.w.overflow[j].e, d |-> r.w.overflow[j].tick - Cycle]],
                  r.res, strong)

\* Advance wheel k by one slot, drain the newly current slot and cascade
\* into the next wheel (at last the overflow list) when wheel k wraps.
TickLevel(w, k, res, strong) ==
    LET i == (w.idx[k] + 1) % WheelSize
        bucket == w.slots[k][i]
        w1 == [w EXCEPT !.idx[k] = i, !.slots[k][i] = <<>>]
    IN Cascade(PlaceAll(w1, [j \in 1..Len(bucket) |->
                                [e |-> bucket[j].e, d |-> bucket[j].rest]],
                        res, strong),
               i, k, strong)

\* tick of the inner wheel: [w, res], res the weak handles that expire.
WheelTick(w, strong) == TickLevel(w, 0, <<>>, strong)

\* skip of the inner wheel: the counter advances by n, every wrap crossed
\* cascades, and no expiry is produced.
RECURSIVE WheelSkip(_, _, _)
WheelSkip(w, n, strong) ==
    IF n = 0 THEN w
    ELSE LET t == WheelTick(w, strong)
         IN IF Len(t.res) >= 0       \* whatever the tick collects is dropped
            THEN WheelSkip(t.w, n - 1, strong)
            ELSE w

\* Number of weak handles the wheel and the overflow list hold.
RECURSIVE SumLen(_, _)
SumLen(f, S) == IF S = {} THEN 0
                ELSE LET x == CHOOSE y \in S : TRUE
                     IN Len(f[x]) + SumLen(f, S \ {x})

Pending(w) == SumLen([p \in Levels \X SlotIdx |-> w.slots[p[1]][p[2]]],
                     Levels \X SlotIdx) + Len(w.overflow)

\* Ticks until wheel k drains its slot s: wheel k advances whenever the
\* wheels below it wrap, and reaches s after (s - i_k) mod WheelSize advances.
ToVisit(w, k, s) ==
    LET unit == WheelSize ^ k
    IN (((s - w.idx[k] - 1) % WheelSize) * unit) + (unit - (Now(w) % unit))

\* The ticks at which some non-empty slot is next drained, and the tick at
\* which the overflow list is next scanned.
Visits(w) ==
    {ToVisit(w, p[1], p[2]) : p \in {q \in Levels \X SlotIdx : w.slots[q[1]][q[2]] # <<>>}}
    \cup (IF w.overflow # <<>> THEN {Cycle - Now(w)} ELSE {})

\* Skip::from_millis: no tick to skip is None.
Millis(n) == IF n = 0 THEN [kind |-> "None", ms |-> 0] ELSE [kind |-> "Millis", ms |-> n]

\* can_skip: Empty, Millis(ms) with ms >= 1, or None: the ticks before the
\* first one that drains a non-empty slot or scans a non-empty overflow list.
CanSkip(w) ==
    IF Visits(w) = {} THEN [kind |-> "Empty", ms |-> 0]
    ELSE Millis((CHOOSE n \in Visits(w) : \A m \in Visits(w) : n <= m) - 1)

\* ----------------------------------------------------- cancellable wheel
\* A state of QuadWheelWithOverflow and of the handles around it:
\* [wheel, timers, ents, held].

St == [wheel |-> wheel, timers |-> timers, ents |-> ents, held |-> held]

\* Handles with a strong count above zero: held by the caller or by timers.
Strong(st) == (st.held \cup {st.timers[i] : i \in Ids}) \ {NoHandle}

Range(s) == {s[j] : j \in 1..Len(s)}

\* insert_ref_with_delay with the registration moved before the match: the
\* id is in timers even when the wheel answers Expired.
insert_ref_registers(st, e, delay) ==
    LET r == InsertWithDelay(st.wheel, e, delay)
    IN IF r.ok
       THEN [ok |-> TRUE,
             st |-> [st EXCEPT !.wheel = r.w, !.timers[st.ents[e].id] = e]]
       ELSE [ok |-> FALSE, st |-> [st EXCEPT !.timers[st.ents[e].id] = e]]

\* insert_ref_with_delay: [ok, st]; ok = FALSE is Expired(e).
insert_ref_with_delay(st, e, delay) ==
    LET r == InsertWithDelay(st.wheel, e, delay)
    IN IF r.ok
       THEN [ok |-> TRUE,
             st |-> [st EXCEPT !.wheel = r.w, !.timers[st.ents[e].id] = e]]
       ELSE [ok |-> FALSE, st |-> st]

\* insert_ref that schedules one tick later than the entry's delay.
insert_ref_late(st, e) == insert_ref_with_delay(st, e, st.ents[e].delay + 1)

\* insert_ref: the delay is the entry's own.
insert_ref(st, e) == insert_ref_with_delay(st, e, st.ents[e].delay)

\* Strong references to the handle h held outside the running call: the
\* caller's and the one timers stores.
StrongCount(st, h) ==
    (IF h \in st.held THEN 1 ELSE 0)
        + (IF st.ents[h] # NoEntry /\ st.timers[st.ents[h].id] = h THEN 1 ELSE 0)

\* Arc::try_unwrap of the handle h that the running call owns: [ok, e]; it
\* succeeds iff that reference is the only strong one.
try_unwrap(st, h) ==
    IF 1 + StrongCount(st, h) = 1
    THEN [ok |-> TRUE, e |-> st.ents[h]]
    ELSE [ok |-> FALSE, e |-> NoEntry]

\* insert by value: the entry [id, delay] is wrapped in the fresh handle h;
\* on Expired the handle is unwrapped and the entry comes back; `panic` is
\* the unwrap() of a try_unwrap that failed.
insert(st, h, entry) ==
    LET r == insert_ref([st EXCEPT !.ents[h] = entry], h)
    IN IF r.ok
       THEN [ok |-> TRUE, st |-> r.st, back |-> NoEntry, panic |-> FALSE]
       ELSE [ok |-> FALSE, st |-> [r.st EXCEPT !.ents[h] = st.ents[h]],
             back |-> try_unwrap(r.st, h).e,
             panic |-> ~try_unwrap(r.st, h).ok]

\* cancel that walks the wheel and unlinks the weak handles of the entry.
cancel_unlinks(st, id) ==
    IF st.timers[id] # NoHandle
    THEN LET keep(x) == x.e # st.timers[id]
         IN [ok |-> TRUE,
             st |-> [st EXCEPT
                       !.timers[id] = NoHandle,
                       !.wheel.slots = [k \in Levels |-> [s \in SlotIdx |->
                                          SelectSeq(st.wheel.slots[k][s], keep)]],
                       !.wheel.overflow = SelectSeq(st.wheel.overflow, keep)]]
    ELSE [ok |-> FALSE, st |-> st]

\* cancel that clears the lookup table instead of removing one id.
cancel_clears(st, id) ==
    IF st.timers[id] # NoHandle
    THEN [ok |-> TRUE, st |-> [st EXCEPT !.timers = [i \in Ids |-> NoHandle]]]
    ELSE [ok |-> FALSE, st |-> st]

\* cancel with a lookup (get) in place of remove_entry: Ok, but the id stays.
cancel_keeps(st, id) ==
    IF st.timers[id] # NoHandle
    THEN [ok |-> TRUE, st |-> st]
    ELSE [ok |-> FALSE, st |-> st]

\* cancel with the arms of the match swapped: NotFound for a known id.
cancel_swapped(st, id) ==
    IF st.timers[id] # NoHandle
    THEN [ok |-> FALSE, st |-> [st EXCEPT !.timers[id] = NoHandle]]
    ELSE [ok |-> TRUE, st |-> st]

\* cancel: [ok, st]; ok = FALSE is NotFound.
cancel(st, id) ==
    IF st.timers[id] # NoHandle
    THEN [ok |-> TRUE, st |-> [st EXCEPT !.timers[id] = NoHandle]]
    ELSE [ok |-> FALSE, st |-> st]

\* take_timer that yields every handle it can upgrade, in timers or not.
take_timer_any(st, weak_e, alive) ==
    IF weak_e \in Strong(st) \cup alive
    THEN [some |-> TRUE,
          st |-> [st EXCEPT !.timers[st.ents[weak_e].id] = NoHandle]]
    ELSE [some |-> FALSE, st |-> st]

\* take_timer with a lookup in place of remove_entry: the id stays in timers.
take_timer_keeps(st, weak_e, alive) ==
    IF weak_e \in Strong(st) \cup alive
    THEN IF st.timers[st.ents[weak_e].id] # NoHandle
         THEN [some |-> TRUE, st |-> st]
         ELSE [some |-> FALSE, st |-> st]
    ELSE [some |-> FALSE, st |-> st]

\* take_timer: [some, st]; `alive` are the handles upgraded earlier in the
\* same tick, which the list being returned keeps alive.
take_timer(st, weak_e, alive) ==
    IF weak_e \in Strong(st) \cup alive
    THEN IF st.timers[st.ents[weak_e].id] # NoHandle
         THEN [some |-> TRUE,
               st |-> [st EXCEPT !.timers[st.ents[weak_e].id] = NoHandle]]
         ELSE [some |-> FALSE, st |-> st]
    ELSE [some |-> FALSE, st |-> st]

RECURSIVE TakeAll(_, _, _)
TakeAll(st, res, out) ==
    IF res = <<>> THEN [st |-> st, out |-> out]
    ELSE LET t == take_timer(st, Head(res), Range(out))
         IN TakeAll(t.st, Tail(res),
                    IF t.some THEN Append(out, Head(res)) ELSE out)

\* tick: [st, res]; the caller owns the handles of the returned list.
tick(st) ==
    LET r == WheelTick(st.wheel, Strong(st))
        t == TakeAll([st EXCEPT !.wheel = r.w], r.res, <<>>)
    IN [st |-> [t.st EXCEPT !.held = @ \cup Range(t.out)], res |-> t.out]

\* skip that advances the wheel one tick too far.
skip_more(st, amount) == [st EXCEPT !.wheel = WheelSkip(@, amount + 1, Strong(st))]

\* skip goes to the inner wheel.
skip(st, amount) == [st EXCEPT !.wheel = WheelSkip(@, amount, Strong(st))]

\* can_skip that allows one tick too many.
can_skip_late(st) ==
    IF CanSkip(st.wheel).kind = "Millis"
    THEN [kind |-> "Millis", ms |-> CanSkip(st.wheel).ms + 1]
    ELSE CanSkip(st.wheel)

\* can_skip that answers None for an empty wheel.
can_skip_none(st) ==
    IF CanSkip(st.wheel).kind = "Empty" THEN Millis(0) ELSE CanSkip(st.wheel)

\* can_skip goes to the inner wheel.
can_skip(st) == CanSkip(st.wheel)

\* ------------------------------------------------------------ the calls

NoCall == [kind |-> "none", delay |-> 0, age |-> 0, ret |-> 0, can |-> 0]

Cap(n, m) == IF n > m THEN m ELSE n

\* `n` more ticks have passed since every recorded insertion.
Aged(c, n) == [h \in Handles |->
                 IF c[h].kind = "none" THEN c[h]
                 ELSE [c[h] EXCEPT !.age = Cap(@ + n, c[h].delay + 1)]]

Unused == {h \in Handles : ents[h] = NoEntry}

Fresh == CHOOSE h \in Unused : \A g \in Unused : h <= g

Install(st) ==
    /\ wheel' = st.wheel
    /\ timers' = st.timers
    /\ ents' = st.ents
    /\ held' = st.held

\* One more call, while the run may still make one.
Step ==
    /\ calls < MaxCalls
    /\ calls' = calls + 1
    /\ UNCHANGED xvars

\* One more call on the wheel itself, by a caller that uses no driver.
Count ==
    /\ Step
    /\ UNCHANGED dvars

NoCb == [shape |-> "none", initial |-> 0, period |-> 0, fired |-> 0,
         stopped |-> FALSE, after |-> FALSE]

NoLog == [sent |-> <<>>, done |-> <<>>, api |-> "-"]

\* A driver that has just been constructed around a new wheel.
NewDriver(m) ==
    /\ mode = m
    /\ cbs = [h \in Handles |-> NoCb]
    /\ chan = <<>>
    /\ todo = <<>>
    /\ running = NoHandle
    /\ phase = "open"
    /\ wpc = "run"
    /\ dlog = NoLog

\* ------------------------------------------------------------ data tables
\* Rows of the largest table loaded.
MaxRows == 2

\* The cells the xml files hold: an id column and a name column.
CellIds == {"1", "2"}
CellNames == {"a", "b"}

\* DataTable after XmlReader::read_data_string: new(name, fields) and
\* set_data(rows), which indexes the fields from 0.
DataTable(name, rows) ==
    [name |-> name, fields |-> <<"id", "name">>, rows |-> rows,
     field_index |-> ("id" :> 0 @@ "name" :> 1),
     rows_by_pk |-> [k \in {rows[j][1] : j \in 1..Len(rows)} |->
                       CHOOSE r \in 0..(Len(rows) - 1) :
                           /\ rows[r + 1][1] = k
                           /\ \A q \in 0..(Len(rows) - 1) :
                                  rows[q + 1][1] = k => q <= r]]

\* DataTable::new(name, fields): no rows, nothing indexed.
EmptyTable(name) ==
    [name |-> name, fields |-> <<"id", "name">>, rows |-> <<>>,
     field_index |-> [f \in {} |-> 0], rows_by_pk |-> [k \in {} |-> 0]]

Panic == [kind |-> "panic", v |-> ""]

\* DataTable::get(row, column): [kind, v]; kind = "panic" is an index out
\* of bounds or one of the two panic! calls. Vec indices count from 0.
get(t, row, column) ==
    LET index_row == IF row < Len(t.rows) /\ row > 0 THEN row ELSE 0
        it == IF column \in DOMAIN t.field_index THEN t.field_index[column] ELSE 0
    IN IF index_row >= Len(t.rows) THEN Panic
       ELSE LET data == t.rows[index_row + 1]
            IN IF Len(data) < Cardinality(DOMAIN t.field_index) THEN Panic
               ELSE IF it < Len(data)
                    THEN [kind |-> "value", v |-> data[it + 1]]
                    ELSE Panic

\* str::parse::<u32> on the cells in use.
ParseU32 == "1" :> 1 @@ "2" :> 2

\* DataTable::get_value::<u32>: [some, v].
get_value_u32(t, row, column) ==
    LET data == get(t, row, column).v
    IN IF data # "" /\ data \in DOMAIN ParseU32
       THEN [some |-> TRUE, v |-> ParseU32[data]]
       ELSE [some |-> FALSE, v |-> 0]

\* DataTable::get_value::<String>: [some, v].
get_value_String(t, row, column) ==
    LET data == get(t, row, column).v
    IN IF data # "" THEN [some |-> TRUE, v |-> data]
       ELSE [some |-> FALSE, v |-> ""]

NoGet == [op |-> "new", row |-> 0, column |-> "", res |-> [kind |-> "-", v |-> ""]]

\* DataTable::new, before any read.
NewTable ==
    /\ table = EmptyTable("roletable")
    /\ getOp = NoGet

\* Cids of the two configuration tables (config_table.rs).
Cids == {"Cid_Role", "Cid_Game"}

\* RoleTable::new: no role configuration loaded.
NoDatas == [i \in {0} \cup Ids |-> ""]

\* GConfigTable::new.
NewGConfig == [id |-> 0, a1 |-> 0, s1 |-> ""]

\* DataSchema::new: no table.
NoDs == [n \in {} |-> 0]

\* ConfigManager::new, with the table singletons as constructed.
NewConfig ==
    /\ config_tables = {}
    /\ datas = NoDatas
    /\ g_config = NewGConfig
    /\ cfgOp = [op |-> "new", ds |-> NoDs, tables |-> {}, pre |-> NoDatas,
                ok |-> TRUE]

\* DataSchemaLoader::new, and a service with nothing posted to it.
NewLoader ==
    /\ need_load_tables = <<>>
    /\ pos = 0
    /\ dc = NoDs
    /\ lpc = "new"
    /\ tasks = <<>>
    /\ runs = <<>>

\* The service objects: the two every App attaches, and two custom ones.
SrvObjs == {"signal", "net", "test", "cli"}

\* ServiceHandle::id of each object; the two custom services were given
\* the same id.
SrvId == [o \in SrvObjs |->
            IF o = "signal" THEN 1 ELSE IF o = "net" THEN 2 ELSE 3]

\* App::add_service without the search for an equal id.
add_service_pushes(svcs, srv) == Append(svcs, srv)

\* App::add_service: the services list after the call.
add_service(svcs, srv) ==
    IF \E j \in 1..Len(svcs) : SrvId[svcs[j]] = SrvId[srv]
    THEN svcs
    ELSE Append(svcs, srv)

\* App::attach: the service is configured and started, then added:
\* [services, started].
attach(svcs, st, srv) ==
    [services |-> add_service(svcs, srv), started |-> st \cup {srv}]

\* App::new: the signal service and the net service are attached.
NewApp ==
    LET a == attach(<<>>, {}, "signal")
        b == attach(a.services, a.started, "net")
    IN /\ services = b.services
       /\ started = b.started
       /\ nstate = [o \in SrvObjs |-> "Idle"]
       /\ apc = "setup"
       /\ joined = [o \in SrvObjs |-> 0]
       /\ appOp = [op |-> "new", srv |-> "", pre |-> <<>>, checked |-> FALSE]

\* The program outside the timer, as constructed.
NewHost == NewConfig /\ NewTable /\ NewLoader /\ NewApp

Init ==
    /\ wheel = EmptyWheel
    /\ timers = [i \in Ids |-> NoHandle]
    /\ ents = [h \in Handles |-> NoEntry]
    /\ held = {}
    /\ lastOp = [op |-> "new", id |-> 0, ok |-> TRUE, pre |-> "-"]
    /\ lastRes = <<>>
    /\ call = [h \in Handles |-> NoCall]
    /\ calls = 0
    /\ NewDriver("none")
    /\ NewHost

\* timer.insert(entry) with a fresh entry [id, d].
Insert(id, d) ==
    /\ Count
    /\ Unused # {}
    /\ Pending(wheel) < MaxPending
    /\ LET r == insert(St, Fresh, [id |-> id, delay |-> d])
       IN /\ Install(r.st)
          /\ lastOp' = [op |-> "insert", id |-> id, ok |-> r.ok, pre |-> "-"]
          /\ call' = IF r.ok
                     THEN [call EXCEPT ![Fresh] = [kind |-> "value", delay |-> d,
                                                   age |-> 0, ret |-> 0, can |-> 0]]
                     ELSE call
    /\ lastRes' = <<>>

\* The caller wraps an entry [id, d] in a strong handle of its own.
NewArc(id, d) ==
    /\ Count
    /\ Unused # {}
    /\ ents' = [ents EXCEPT ![Fresh] = [id |-> id, delay |-> d]]
    /\ held' = held \cup {Fresh}
    /\ lastOp' = [op |-> "arc", id |-> id, ok |-> TRUE, pre |-> "-"]
    /\ lastRes' = <<>>
    /\ UNCHANGED <<wheel, timers, call>>

\* timer.insert_ref(Arc::clone(&e)) with a handle the caller holds.
InsertRef(h) ==
    /\ Count
    /\ h \in held
    /\ Pending(wheel) < MaxPending
    /\ LET r == insert_ref(St, h)
       IN /\ Install(r.st)
          /\ lastOp' = [op |-> "insert_ref", id |-> ents[h].id, ok |-> r.ok, pre |-> "-"]
          /\ call' = IF r.ok
                     THEN [call EXCEPT ![h] = [kind |-> "ref", delay |-> ents[h].delay,
                                               age |-> 0, ret |-> 0, can |-> 0]]
                     ELSE call
    /\ lastRes' = <<>>

\* timer.cancel(&id).
Cancel(id) ==
    /\ Count
    /\ LET r == cancel(St, id)
       IN /\ Install(r.st)
          /\ lastOp' = [op |-> "cancel", id |-> id, ok |-> r.ok, pre |-> "-"]
          /\ call' = IF r.ok
                     THEN [call EXCEPT ![timers[id]].can = Cap(@ + 1, 2)]
                     ELSE call
    /\ lastRes' = <<>>

\* timer.tick().
Tick ==
    /\ Count
    /\ LET r == tick(St)
       IN /\ Install(r.st)
          /\ lastRes' = r.res
          /\ call' = [h \in Handles |->
                        IF h \in Range(r.res)
                        THEN [Aged(call, 1)[h] EXCEPT !.ret = Cap(@ + 1, 2)]
                        ELSE Aged(call, 1)[h]]
    /\ lastOp' = [op |-> "tick", id |-> 0, ok |-> TRUE, pre |-> can_skip(St).kind]

\* timer.skip(amount), called as its documentation asks: only for an amount
\* that can_skip() allows.
Skip(amount) ==
    /\ Count
    /\ can_skip(St).kind = "Millis"
    /\ amount <= can_skip(St).ms
    /\ Install(skip(St, amount))
    /\ call' = Aged(call, amount)
    /\ lastOp' = [op |-> "skip", id |-> 0, ok |-> TRUE, pre |-> "-"]
    /\ lastRes' = <<>>

\* The caller drops its strong reference to h.
Drop(h) ==
    /\ Count
    /\ h \in held
    /\ held' = held \ {h}
    /\ lastOp' = [op |-> "drop", id |-> 0, ok |-> TRUE, pre |-> "-"]
    /\ lastRes' = <<>>
    /\ UNCHANGED <<wheel, timers, ents, call>>

Next ==
    \/ \E id \in Ids, d \in Delays : Insert(id, d)
    \/ \E id \in Ids, d \in Delays : NewArc(id, d)
    \/ \E h \in Handles : InsertRef(h)
    \/ \E id \in Ids : Cancel(id)
    \/ Tick
    \/ \E amount \in 1..Cycle : Skip(amount)
    \/ \E h \in Handles : Drop(h)

Spec == Init /\ [][Next]_vars

\* Runs that only insert by value, tick, skip and drop what tick returned:
\* no cancel and no insert_ref.
NextByValue ==
    \/ \E id \in Ids, d \in Delays : Insert(id, d)
    \/ Tick
    \/ \E amount \in 1..Cycle : Skip(amount)
    \/ \E h \in Handles : Drop(h)

SpecByValue == Init /\ [][NextByValue]_vars

\* The states and the results of n ticks in a row.
RECURSIVE TickN(_, _)
TickN(st, n) ==
    IF n = 0 THEN [st |-> st, res |-> <<>>]
    ELSE LET t == TickN(st, n - 1)
             u == tick(t.st)
         IN IF Len(t.res) = n - 1    \* the first n - 1 calls come first
            THEN [st |-> u.st, res |-> Append(t.res, u.res)]
            ELSE t

\* Number of weak handles to h that the wheel and the overflow list hold.
RECURSIVE CountOf(_, _)
CountOf(h, q) == IF q = <<>> THEN 0
                 ELSE (IF Head(q).e = h THEN 1 ELSE 0) + CountOf(h, Tail(q))

RECURSIVE SumOf(_, _, _)
SumOf(h, w, S) == IF S = {} THEN 0
                  ELSE LET p == CHOOSE y \in S : TRUE
                       IN CountOf(h, w.slots[p[1]][p[2]]) + SumOf(h, w, S \ {p})

WeakCount(h, w) == SumOf(h, w, Levels \X SlotIdx) + CountOf(h, w.overflow)

\* ------------------------------------------------------------ the claims

\* C1 (cancellation finality, I3): once cancel(id) has returned Ok for an
\* entry, no later tick() returns that entry. call[h].can counts the
\* cancels that returned Ok for h since h was last inserted, so an entry
\* that was inserted again after its cancel does not count.
C1_CancelFinal == \A h \in Range(lastRes) : call[h].can = 0

\* C2 (double-yield invariant): an insert() by value is resolved exactly
\* once, by one tick() returning the entry or by one cancel() returning Ok:
\* never both, and never neither once its delay has passed.
C2_ResolvedOnce ==
    \A h \in Handles : call[h].kind = "value" =>
        /\ call[h].ret + call[h].can <= 1
        /\ call[h].age >= call[h].delay => call[h].ret + call[h].can = 1

\* C3 (exact expiry, R2): an entry inserted with a delay of d ticks,
\* 1 <= d < 2^32, and not cancelled is returned by the d-th tick after its
\* insertion: not before, and exactly once.
C3_ExactExpiry ==
    \A h \in Handles :
        (call[h].kind # "none" /\ call[h].delay < Cycle /\ call[h].can = 0) =>
            /\ call[h].ret <= 1
            /\ call[h].ret = 1 <=> call[h].age >= call[h].delay

\* Ticks over which the round trip insert; cancel is compared.
R1Ticks == 4

UsedIds == {ents[h].id : h \in Handles}

\* The state after insert(e); cancel(e.id) for a fresh entry e = [id, d].
RoundTrip(id, d) == cancel(insert(St, Fresh, [id |-> id, delay |-> d]).st, id).st

SameTicks(st) ==
    \A n \in 0..R1Ticks :
        /\ TickN(st, n).res = TickN(St, n).res
        /\ TickN(st, n).st.timers = TickN(St, n).st.timers

\* C4 as the spec states it (R1): after insert(e); cancel(e.id), with a
\* fresh id and a non-zero delay, can_skip(), the results of the following
\* ticks and the ids in timers are those of the state without e.
C4_RoundTripAll ==
    Unused # {} =>
        \A id \in Ids \ UsedIds, d \in Delays \ {0} :
            /\ can_skip(RoundTrip(id, d)) = can_skip(St)
            /\ SameTicks(RoundTrip(id, d))

\* C4 amended: insert(e); cancel(e.id) leaves the ids in timers and the
\* results of the following ticks as they were without e (can_skip() may
\* differ: the dead weak handle stays in the wheel).
C4_RoundTrip ==
    Unused # {} =>
        \A id \in Ids \ UsedIds, d \in Delays \ {0} : SameTicks(RoundTrip(id, d))

\* C4 witness: an insert by value was cancelled right away, while another
\* entry is registered.
C4_Witness ==
    /\ lastOp.op = "cancel" /\ lastOp.ok
    /\ \E h \in Handles : call[h].kind = "value" /\ call[h].can = 1 /\ call[h].age = 0
    /\ \E id \in Ids : timers[id] # NoHandle

C6_Conservation ==
    \A h \in Handles : call[h].kind = "value" =>
        call[h].ret + WeakCount(h, wheel) = 1

\* C7: cancel(id) returns Ok exactly when id is in timers; when it is not
\* (never inserted, already returned by tick, already cancelled) it returns
\* NotFound and changes neither timers nor the wheel.
C7_CancelNotFound ==
    \A id \in Ids :
        /\ id \notin UsedIds => timers[id] = NoHandle
        /\ (lastOp.op = "cancel" /\ lastOp.id = id) => timers[id] = NoHandle
        /\ (lastOp.op = "tick" /\ \E h \in Range(lastRes) : ents[h].id = id) =>
               timers[id] = NoHandle
        /\ cancel(St, id).ok <=> timers[id] # NoHandle
        /\ timers[id] = NoHandle => cancel(St, id).st = St
        /\ timers[id] # NoHandle =>
               cancel(St, id).st = [St EXCEPT !.timers[id] = NoHandle]

\* C7 witness: cancel returned NotFound for the id of an entry that a tick
\* had returned.
C7_Witness ==
    /\ lastOp.op = "cancel" /\ ~lastOp.ok
    /\ \E h \in Handles : ents[h].id = lastOp.id /\ call[h].ret = 1

\* C8: inserting an entry with a delay of zero fails with Expired carrying
\* that entry, and changes nothing: not timers, not an entry registered
\* under the same id, no slot and not the overflow list.
C8_ZeroDelay ==
    Unused # {} =>
        \A id \in Ids :
            LET r == insert(St, Fresh, [id |-> id, delay |-> 0])
            IN /\ ~r.ok
               /\ r.back = [id |-> id, delay |-> 0]
               /\ r.st = St

\* C8 witness: an insert with delay zero failed for an id under which an
\* entry is registered.
C8_Witness ==
    /\ lastOp.op = "insert" /\ ~lastOp.ok
    /\ timers[lastOp.id] # NoHandle

\* C9 as the spec states it: can_skip() is Empty exactly when no id is in
\* timers.
C9_EmptyIffNoTimers ==
    can_skip(St).kind = "Empty" <=> \A id \in Ids : timers[id] = NoHandle

\* C9 amended: can_skip() is Empty exactly when no handle, live or dead, is
\* left in a slot or in the overflow list; then no id is in timers.
C9_EmptyIffNoHandle ==
    /\ can_skip(St).kind = "Empty" <=> Pending(wheel) = 0
    /\ can_skip(St).kind = "Empty" => \A id \in Ids : timers[id] = NoHandle

\* C9 witness: a tick returned the last entry and can_skip() is Empty.
C9_Witness ==
    /\ lastOp.op = "tick" /\ lastRes # <<>>
    /\ can_skip(St).kind = "Empty"

\* Every entry so far was inserted by value, each under an id of its own:
\* the runs in which no registration replaces another.
DistinctByValue ==
    /\ \A h \in Handles : call[h].kind # "ref"
    /\ \A g, h \in Handles \ Unused : g # h => ents[g].id # ents[h].id

\* C10 as the spec states it, on the runs that insert by value under
\* distinct ids: a tick() that follows can_skip() = None returns at least
\* one entry.
C10_NoneFires ==
    (lastOp.op = "tick" /\ lastOp.pre = "None" /\ DistinctByValue) =>
        lastRes # <<>>

\* C10 amended: when can_skip() is None the next tick drains a slot (or the
\* overflow list) that holds a handle: the wheel's content changes, though
\* the tick may return nothing.
C10_NoneDrains ==
    can_skip(St).kind = "None" =>
        \/ tick(St).st.wheel.slots # wheel.slots
        \/ tick(St).st.wheel.overflow # wheel.overflow

\* C10 witness: can_skip() was None and the tick that followed returned
\* nothing.
C10_Witness == lastOp.op = "tick" /\ lastOp.pre = "None" /\ lastRes = <<>>

\* The wheel content changes in the tick from st: a slot that holds a handle
\* is drained, or the overflow list is promoted.
Drains(st) ==
    \/ tick(st).st.wheel.slots # st.wheel.slots
    \/ tick(st).st.wheel.overflow # st.wheel.overflow

\* C11 as the spec states it: when can_skip() = Millis(m), m >= 1, the next
\* m ticks return nothing and the (m+1)-th tick returns at least one entry.
C11_LargestSkip ==
    can_skip(St).kind = "Millis" =>
        LET m == can_skip(St).ms
            t == TickN(St, m + 1)
        IN /\ m >= 1
           /\ \A j \in 1..m : t.res[j] = <<>>
           /\ t.res[m + 1] # <<>>

\* C11 amended: when can_skip() = Millis(m), m >= 1, the next m ticks
\* return nothing and drain no handle, and the (m+1)-th tick drains a slot
\* that holds a handle (or promotes the overflow list); it may return
\* nothing.
C11_SkipToDrain ==
    can_skip(St).kind = "Millis" =>
        LET m == can_skip(St).ms
            t == TickN(St, m)
        IN /\ m >= 1
           /\ t.res = [j \in 1..m |-> <<>>]
           /\ t.st.wheel.slots = wheel.slots
           /\ t.st.wheel.overflow = wheel.overflow
           /\ Drains(t.st)

\* C11 witness: can_skip() is Millis(m) with a registered entry in the
\* wheel, and the (m+1)-th tick returns nothing.
C11_Witness ==
    /\ can_skip(St).kind = "Millis"
    /\ \E id \in Ids : timers[id] # NoHandle /\ WeakCount(timers[id], wheel) > 0
    /\ TickN(St, can_skip(St).ms + 1).res[can_skip(St).ms + 1] = <<>>

\* -------------------------------------------------- the driver loop (C12)
\* The loop of the test increasing_skip: all entries are inserted first, by
\* value and under distinct ids; then each round asks can_skip(), skips
\* what it allows and ticks once. The loop runs while an entry is pending
\* and stops (it panics) when the wheel reports Empty; an entry it popped
\* from a result is dropped sooner or later.
DriverInsert(id, d) ==
    /\ lastOp.op \in {"new", "insert"}
    /\ id \notin UsedIds
    /\ Insert(id, d)

Drive ==
    /\ Count
    /\ \E id \in Ids : timers[id] # NoHandle
    /\ can_skip(St).kind # "Empty"
    /\ LET c == can_skip(St)
           s == IF c.kind = "Millis" THEN skip(St, c.ms) ELSE St
           r == tick(s)
           a == Aged(call, c.ms + 1)
       IN /\ Install(r.st)
          /\ lastRes' = r.res
          /\ call' = [h \in Handles |->
                        IF h \in Range(r.res)
                        THEN [a[h] EXCEPT !.ret = Cap(@ + 1, 2)]
                        ELSE a[h]]
          /\ lastOp' = [op |-> "drive", id |-> 0, ok |-> TRUE, pre |-> c.kind]

NextDriver ==
    \/ \E id \in Ids, d \in Delays \ {0} : DriverInsert(id, d)
    \/ Drive
    \/ \E h \in Handles : Drop(h)

SpecDriver == Init /\ [][NextDriver]_vars

\* C12: under the loop 'can_skip(); if Millis(s) then skip(s); tick()' no
\* expiry is missed or late: with the logical time counted as the amounts
\* skipped plus one per tick (call[h].age), every entry is returned exactly
\* when the logical time equals its delay, hence in increasing order of
\* delay; the wheel is never Empty while an entry is pending, and it is
\* Empty once the last entry has been returned.
C12_DriverExact ==
    /\ \A h \in Handles : call[h].kind = "value" =>
           /\ call[h].ret <= 1
           /\ call[h].ret = 1 <=> call[h].age >= call[h].delay
    /\ \A h \in Range(lastRes) : call[h].age = call[h].delay
    /\ \A g, h \in Handles :
           (call[g].kind = "value" /\ call[h].kind = "value"
            /\ call[g].ret = 1 /\ call[h].ret = 0) => call[g].delay < call[h].delay
    /\ (\E id \in Ids : timers[id] # NoHandle) => can_skip(St).kind # "Empty"
    /\ (\A h \in Handles : call[h].kind = "value" => call[h].ret = 1) =>
           can_skip(St).kind = "Empty"

\* C12 witness: the loop has returned two entries, the later one promoted
\* from the overflow list, and the wheel is Empty.
C12_Witness ==
    /\ lastOp.op = "drive" /\ lastRes # <<>>
    /\ \A h \in Handles : call[h].ret = 1
    /\ \E h \in Range(lastRes) : call[h].delay > Cycle
    /\ can_skip(St).kind = "Empty"

\* The handles of a result list whose entries have another id than `id`.
Others(q, id) == SelectSeq(q, LAMBDA h : ents[h].id # id)

FirstInsert(id, d) ==
    /\ id \notin UsedIds
    /\ Insert(id, d)

Reinsert(h, keep) ==
    /\ Count
    /\ h \in held
    /\ call[h].ret = 1
    /\ Pending(wheel) < MaxPending
    /\ LET r == insert_ref(St, h)
       IN /\ r.ok
          /\ Install([r.st EXCEPT !.held = IF keep THEN @ ELSE @ \ {h}])
          /\ call' = [call EXCEPT ![h] = [kind |-> "ref", delay |-> ents[h].delay,
                                          age |-> 0, ret |-> 0, can |-> 0]]
    /\ lastOp' = [op |-> "insert_ref", id |-> ents[h].id, ok |-> TRUE, pre |-> "-"]
    /\ lastRes' = <<>>

NextReschedule ==
    \/ \E id \in Ids, d \in Delays \ {0} : FirstInsert(id, d)
    \/ \E h \in Handles, keep \in BOOLEAN : Reinsert(h, keep)
    \/ Tick
    \/ \E amount \in 1..Cycle : Skip(amount)
    \/ \E h \in Handles : Drop(h)

SpecReschedule == Init /\ [][NextReschedule]_vars

\* C14: an entry that a tick returned and that was inserted again with
\* insert_ref under its id is returned again exactly once, by the tick at
\* which its delay has passed since the re-insertion; this in every round.
C14_Reschedule ==
    /\ \A h \in Handles : call[h].kind = "ref" =>
           /\ call[h].ret <= 1
           /\ call[h].ret = 1 <=> call[h].age >= call[h].delay
           /\ (call[h].ret = 0) => timers[ents[h].id] = h
    /\ Cardinality(Range(lastRes)) = Len(lastRes)

\* C14 witness: a tick returned an entry in its second round at least: it
\* was re-inserted, returned, re-inserted and is returned again.
C14_Witness ==
    /\ lastOp.op = "tick" /\ calls = MaxCalls
    /\ \E h \in Range(lastRes) :
           /\ call[h].kind = "ref"
           /\ \A g \in Handles \ {h} : ents[g] = NoEntry

\* --------------------------------------------- the overflow boundary (C15)
\* Delays around one revolution of the four wheels (2^32 ticks in the
\* program): the last delay the wheels take, and the first two that go to
\* the overflow list.
BoundaryDelays == {Cycle - 1, Cycle, Cycle + 1}

BoundaryInsert(id, d) ==
    /\ id \notin UsedIds
    /\ Insert(id, d)

NextBoundary ==
    \/ \E id \in Ids, d \in BoundaryDelays : BoundaryInsert(id, d)
    \/ Tick
    \/ \E amount \in 1..Cycle : Skip(amount)
    \/ Drive
    \/ \E h \in Handles : Drop(h)

SpecBoundary == Init /\ [][NextBoundary]_vars

\* C15 (overflow boundary): an entry with a delay below one revolution
\* (2^32 ticks), the delay of one revolution less one included, goes to the
\* wheels and not to the overflow list; an entry with a delay of one
\* revolution or more goes to the overflow list, stays there until the
\* top wheel wraps (its due tick lies beyond the current revolution) and is
\* returned by exactly the d-th tick after its insertion.
C15_OverflowBoundary ==
    /\ Unused # {} =>
           \A id \in Ids \ UsedIds, d \in BoundaryDelays :
               LET r == insert(St, Fresh, [id |-> id, delay |-> d]).st.wheel
               IN IF d < Cycle
                  THEN /\ r.overflow = wheel.overflow
                       /\ Pending(r) = Pending(wheel) + 1
                  ELSE /\ r.slots = wheel.slots
                       /\ Len(r.overflow) = Len(wheel.overflow) + 1
    /\ \A j \in 1..Len(wheel.overflow) :
           LET x == wheel.overflow[j]
           IN /\ call[x.e].delay >= Cycle
              /\ x.tick >= Cycle
              /\ x.tick - Now(wheel) = call[x.e].delay - call[x.e].age
    /\ \A h \in Handles : call[h].kind = "value" =>
           /\ call[h].ret <= 1
           /\ call[h].ret = 1 <=> call[h].age >= call[h].delay

\* C15 witness: a tick returned an entry whose delay is one tick more than
\* a revolution, after its promotion from the overflow list.
C15_Witness ==
    /\ lastRes # <<>>
    /\ \E h \in Range(lastRes) : call[h].delay = Cycle + 1 /\ call[h].age = Cycle + 1
    /\ wheel.overflow = <<>>

\* ------------------------------------- cancel and drain, distinct ids (C16)
\* Runs of the shape of cancel_and_drain: every entry has an id of its own
\* and a delay of at least one tick (up to the longest the wheels take, and
\* one for the overflow list), and is inserted once, by value or as a clone
\* of a handle the caller keeps.
DistinctDelays == (Delays \ {0}) \cup {Cycle - 1}

DistinctInsert(id, d) ==
    /\ id \notin UsedIds
    /\ Insert(id, d)

DistinctArc(id, d) ==
    /\ id \notin UsedIds
    /\ NewArc(id, d)

DistinctRef(h) ==
    /\ call[h].kind = "none"
    /\ InsertRef(h)

NextDistinct ==
    \/ \E id \in Ids, d \in DistinctDelays : DistinctInsert(id, d)
    \/ \E id \in Ids, d \in DistinctDelays : DistinctArc(id, d)
    \/ \E h \in Handles : DistinctRef(h)
    \/ \E id \in Ids : Cancel(id)
    \/ Tick
    \/ \E amount \in 1..Cycle : Skip(amount)
    \/ \E h \in Handles : Drop(h)

SpecDistinct == Init /\ [][NextDistinct]_vars

\* C16 (cancel and drain): with distinct ids and delays of at least one
\* tick, an inserted entry is never both cancelled and returned nor
\* returned twice; once its delay has passed it has been returned exactly
\* once if it was not cancelled and not at all if it was; and once the
\* delays of all inserted entries have passed the timers table is empty.
C16_CancelAndDrain ==
    /\ \A h \in Handles : call[h].kind # "none" =>
           /\ call[h].ret + call[h].can <= 1
           /\ call[h].ret = 1 => call[h].age >= call[h].delay
           /\ call[h].age >= call[h].delay => call[h].ret + call[h].can = 1
    /\ (\A h \in Handles : call[h].kind # "none" => call[h].age >= call[h].delay)
           => \A id \in Ids : timers[id] = NoHandle

\* C16 witness: two entries were inserted, one was cancelled before its due
\* tick, and the delays of both have passed: the tick returned the other.
C16_Witness ==
    /\ \A h \in Handles : call[h].kind # "none" /\ call[h].age >= call[h].delay
    /\ \E h \in Handles : call[h].can = 1 /\ call[h].ret = 0
    /\ \E h \in Handles : call[h].can = 0 /\ call[h].ret = 1

\* ------------------------------------------ tick transfers ownership (C17)
\* The ids of the entries of a list of handles.
IdsOf(q) == {ents[q[j]].id : j \in 1..Len(q)}

\* C17 (ownership transfer): every entry a tick returns had its id in
\* timers before the call and has it there no more after the call, the
\* call takes no other id out of timers, the caller holds the returned
\* handles, and no id comes twice in one returned list.
C17_TickTransfers ==
    LET r == tick(St)
    IN /\ \A j \in 1..Len(r.res) :
              /\ timers[ents[r.res[j]].id] # NoHandle
              /\ r.st.timers[ents[r.res[j]].id] = NoHandle
              /\ r.res[j] \in r.st.held
              /\ \A i \in 1..Len(r.res) :
                     ents[r.res[i]].id = ents[r.res[j]].id => i = j
       /\ \A id \in Ids \ IdsOf(r.res) : r.st.timers[id] = timers[id]

\* C17 witness: a tick drained two handles of one id that the caller could
\* both upgrade; it returned one of them and dropped the other silently.
C17_Witness ==
    /\ lastOp.op = "tick"
    /\ Len(lastRes) = 1
    /\ \E g \in Handles \ Range(lastRes) :
           /\ g \in held
           /\ ents[g].id = ents[lastRes[1]].id
           /\ call[g].kind = "ref"
           /\ call[g].age = call[g].delay
           /\ call[g].ret = 0
    /\ \A id \in Ids : timers[id] = NoHandle

\* ------------------------------------------- cancel leaves the wheel (C18)
\* C18 (cancel's frame): cancel(id), found or not, leaves the wheel's
\* indices, every slot and the overflow list as they are, and the entries
\* and the caller's handles too; all it changes is that id is in timers no
\* more, so the weak handle of a cancelled entry is still in the wheel.
C18_CancelLeavesWheel ==
    \A id \in Ids :
        LET r == cancel(St, id)
        IN /\ r.st.wheel.idx = wheel.idx
           /\ r.st.wheel.slots = wheel.slots
           /\ r.st.wheel.overflow = wheel.overflow
           /\ r.st.ents = ents
           /\ r.st.held = held
           /\ r.st.timers = [timers EXCEPT ![id] = NoHandle]
           /\ \A h \in Handles : WeakCount(h, r.st.wheel) = WeakCount(h, wheel)

\* C18 witness: cancel returned Ok for an entry that waits in the wheel,
\* and its weak handle is still there.
C18_Witness ==
    /\ lastOp.op = "cancel"
    /\ lastOp.ok
    /\ timers[lastOp.id] = NoHandle
    /\ \E h \in Handles :
           /\ ents[h] # NoEntry
           /\ ents[h].id = lastOp.id
           /\ call[h].can = 1
           /\ WeakCount(h, wheel) = 1

\* ------------------------------------------------- lazy reclamation (C19)
\* The slots the next tick drains: wheel 0's next slot, and wheel k's next
\* slot when every wheel below it wraps.
DrainedBy(w) ==
    {<<k, (w.idx[k] + 1) % WheelSize>> :
        k \in {l \in Levels : \A j \in Levels : j < l => w.idx[j] = WheelSize - 1}}

\* The next tick goes through the overflow list: every wheel wraps.
OverflowScanned(w) == \A j \in Levels : w.idx[j] = WheelSize - 1

\* The weak handles of h that the next tick drains.
DrainedCount(h, w) ==
    SumOf(h, w, DrainedBy(w))
        + (IF OverflowScanned(w) THEN CountOf(h, w.overflow) ELSE 0)

\* C19 (lazy reclamation): a weak handle of an entry whose cancel returned
\* Ok is gone from the wheel once the slot that holds it has been drained,
\* for cascading or for expiry: the tick that drains it does not put it
\* back.
C19_LazyReclaim ==
    \A h \in Handles :
        (call[h].can >= 1 /\ DrainedCount(h, wheel) > 0) =>
            WeakCount(h, tick(St).st.wheel)
                = WeakCount(h, wheel) - DrainedCount(h, wheel)

\* --------------------------------------------- well-placedness, I1 (C20)
\* A live entry: timers holds the handle under the entry's id. With each
\* handle inserted once, its remaining delay is its delay less its age.
Live(h) == ents[h] # NoEntry /\ timers[ents[h].id] = h /\ call[h].kind # "none"

Remaining(h) == call[h].delay - call[h].age

TimerDelays == {1, WheelSize + 1}

FreshId == CHOOSE i \in Ids \ UsedIds : \A j \in Ids \ UsedIds : i <= j

\* What the operations of the driver change.
Sv == [st |-> St, call |-> call, cbs |-> cbs]

NewCall(d) == [kind |-> "ref", delay |-> d, age |-> 0, ret |-> 0, can |-> 0]

\* A schedule command reaches the wheel: the entry's handle moves into it.
DoSchedule(sv, h) ==
    LET r == insert_ref(sv.st, h)
    IN IF r.ok
       THEN [sv |-> [sv EXCEPT !.st = [r.st EXCEPT !.held = @ \ {h}],
                               !.call[h] = NewCall(sv.st.ents[h].delay)],
             res |-> "Ok"]
       ELSE [sv |-> sv, res |-> "Expired"]

\* A cancel reaches the wheel.
DoCancel(sv, id) ==
    LET r == cancel(sv.st, id)
    IN IF r.ok
       THEN [sv |-> [sv EXCEPT !.st = r.st,
                               !.call[sv.st.timers[id]].can = Cap(@ + 1, 2)],
             res |-> "Ok"]
       ELSE [sv |-> sv, res |-> "NotFound"]

\* A stop that leaves the wheel and its entries in place.
DoStop_keeps(sv) == sv

\* The driver stops: the wheel and the entries still scheduled are dropped.
DoStop(sv) ==
    [sv EXCEPT !.st.wheel = EmptyWheel,
               !.st.timers = [i \in Ids |-> NoHandle],
               !.st.held = {}]

\* The callback of entry h is invoked; `after` remembers an invocation that
\* came after the callback said stop or after a cancel that took effect.
Invoke(sv, h) ==
    [sv EXCEPT !.cbs[h].fired = Cap(@ + 1, 3),
               !.cbs[h].after = @ \/ sv.cbs[h].stopped \/ sv.call[h].can >= 1]

\* The callback of entry h returns: a periodic callback that says continue
\* is re-inserted with its period, any other entry is released.
Complete(sv, h, cont) ==
    LET st1 == [sv.st EXCEPT !.ents[h].delay = sv.cbs[h].period]
        r == insert_ref(st1, h)
    IN IF sv.cbs[h].shape = "periodic" /\ cont /\ r.ok
       THEN [sv EXCEPT !.st = [r.st EXCEPT !.held = @ \ {h}],
                       !.call[h] = NewCall(sv.cbs[h].period)]
       ELSE [sv EXCEPT !.st.held = @ \ {h},
                       !.cbs[h].stopped = (sv.cbs[h].shape = "periodic")]

\* The simulation driver dispatches the entries of one tick, one by one.
RECURSIVE DispatchAll(_, _, _)
DispatchAll(sv, q, conts) ==
    IF q = <<>> THEN sv
    ELSE DispatchAll(Complete(Invoke(sv, Head(q)), Head(q), Head(q) \in conts),
                     Tail(q), conts)

InstallSv(sv) ==
    /\ Install(sv.st)
    /\ call' = sv.call
    /\ cbs' = sv.cbs

\* The ghost record of the ticks that have passed and of what they returned.
Ticked(c, n, res) ==
    [h \in Handles |->
        IF h \in Range(res)
        THEN [Aged(c, n)[h] EXCEPT !.ret = Cap(@ + 1, 2)]
        ELSE Aged(c, n)[h]]

\* The worker waits on the command channel: no tick is being dispatched.
Waiting == wpc = "run" /\ todo = <<>> /\ running = NoHandle

\* A driver that never notices its shutdown.
Closed_never(ph) == FALSE

\* shutdown() has been called: the transition is terminal.
Closed(ph) == ph # "open"

\* schedule_once / schedule_periodic: the entry is made and, on the
\* simulation driver, inserted at once; on the thread driver it is sent to
\* the worker. After shutdown() the call returns Shutdown.
ApiSchedule(shape, d, p) ==
    /\ Step
    /\ mode # "none"
    /\ lastRes' = <<>>
    /\ IF Closed(phase)
       THEN /\ dlog' = [dlog EXCEPT !.api = "Shutdown"]
            /\ lastOp' = [op |-> "schedule", id |-> 0, ok |-> FALSE, pre |-> "-"]
            /\ UNCHANGED <<wheel, timers, ents, held, call, mode, cbs, chan,
                           todo, running, phase, wpc>>
       ELSE /\ Unused # {}
            /\ Ids \ UsedIds # {}
            /\ LET h == Fresh
                   cmd == [op |-> shape, h |-> h, id |-> FreshId, began |-> FALSE]
                   ents1 == [ents EXCEPT ![h] = [id |-> FreshId, delay |-> d]]
                   cbs1 == [cbs EXCEPT ![h] = [NoCb EXCEPT !.shape = shape,
                                                           !.initial = d,
                                                           !.period = p]]
                   r == DoSchedule([st |-> [St EXCEPT !.ents = ents1],
                                    call |-> call, cbs |-> cbs1], h)
               IN /\ lastOp' = [op |-> "schedule", id |-> FreshId, ok |-> TRUE,
                                pre |-> "-"]
                  /\ IF mode = "sim"
                     THEN /\ InstallSv(r.sv)
                          /\ dlog' = [sent |-> Append(dlog.sent, cmd),
                                      done |-> Append(dlog.done, [cmd |-> cmd, res |-> r.res]),
                                      api |-> r.res]
                          /\ UNCHANGED chan
                     ELSE /\ ents' = ents1
                          /\ cbs' = cbs1
                          /\ chan' = Append(chan, cmd)
                          /\ dlog' = [dlog EXCEPT !.sent = Append(@, cmd), !.api = "Ok"]
                          /\ UNCHANGED <<wheel, timers, held, call>>
            /\ UNCHANGED <<mode, todo, running, phase, wpc>>

ScheduleOnce(d) == ApiSchedule("once", d, 0)

SchedulePeriodic(initial, period) == ApiSchedule("periodic", initial, period)

\* cancel(id): synchronous on the simulation driver, a command on the
\* thread driver. `began` remembers whether the tick that returned the
\* entry of id was being dispatched when the cancel was issued.
CancelTimer(id) ==
    /\ Step
    /\ mode # "none"
    /\ lastRes' = lastRes
    /\ IF Closed(phase)
       THEN /\ dlog' = [dlog EXCEPT !.api = "Shutdown"]
            /\ lastOp' = [op |-> "cancel", id |-> id, ok |-> FALSE, pre |-> "-"]
            /\ UNCHANGED <<wheel, timers, ents, held, call, mode, cbs, chan,
                           todo, running, phase, wpc>>
       ELSE LET cmd == [op |-> "cancel", h |-> NoHandle, id |-> id,
                        began |-> /\ ~Waiting
                                  /\ \E h \in Range(lastRes) : ents[h].id = id]
                r == DoCancel(Sv, id)
            IN /\ IF mode = "sim"
                  THEN /\ InstallSv(r.sv)
                       /\ dlog' = [sent |-> Append(dlog.sent, cmd),
                                   done |-> Append(dlog.done, [cmd |-> cmd, res |-> r.res]),
                                   api |-> r.res]
                       /\ lastOp' = [op |-> "cancel", id |-> id, ok |-> r.res = "Ok",
                                     pre |-> "-"]
                       /\ UNCHANGED chan
                  ELSE /\ chan' = Append(chan, cmd)
                       /\ dlog' = [dlog EXCEPT !.sent = Append(@, cmd), !.api = "Ok"]
                       /\ lastOp' = [op |-> "cancel", id |-> id, ok |-> TRUE, pre |-> "-"]
                       /\ UNCHANGED <<wheel, timers, ents, held, call, cbs>>
               /\ UNCHANGED <<mode, todo, running, phase, wpc>>

\* shutdown(): the first call stops the driver (the simulation driver at
\* once, the thread driver through the channel); a later call does nothing.
Shutdown ==
    /\ Step
    /\ mode # "none"
    /\ lastRes' = lastRes
    /\ lastOp' = [op |-> "shutdown", id |-> 0, ok |-> TRUE, pre |-> "-"]
    /\ IF Closed(phase)
       THEN /\ dlog' = [dlog EXCEPT !.api = "Ok"]
            /\ UNCHANGED <<wheel, timers, ents, held, call, mode, cbs, chan,
                           todo, running, phase, wpc>>
       ELSE LET cmd == [op |-> "stop", h |-> NoHandle, id |-> 0, began |-> FALSE]
            IN /\ IF mode = "sim"
                  THEN /\ InstallSv(DoStop(Sv))
                       /\ phase' = "closed"
                       /\ wpc' = "done"
                       /\ dlog' = [sent |-> Append(dlog.sent, cmd),
                                   done |-> Append(dlog.done, [cmd |-> cmd, res |-> "Ok"]),
                                   api |-> "Ok"]
                       /\ UNCHANGED chan
                  ELSE /\ chan' = Append(chan, cmd)
                       /\ phase' = "closing"
                       /\ dlog' = [dlog EXCEPT !.sent = Append(@, cmd), !.api = "Ok"]
                       /\ UNCHANGED <<wheel, timers, ents, held, call, cbs, wpc>>
               /\ UNCHANGED <<mode, todo, running>>

\* shutdown() returns on the thread driver: the worker has been joined.
Join ==
    /\ mode = "thread"
    /\ phase = "closing"
    /\ wpc = "done"
    /\ phase' = "closed"
    /\ UNCHANGED <<wheel, timers, ents, held, lastOp, lastRes, call, calls,
                   mode, cbs, chan, todo, running, wpc, dlog, xvars>>

\* next_event() of the simulation driver: skip to the next non-empty tick,
\* process it and dispatch what it returns; each periodic callback says
\* continue (conts) or stop.
NextEvent ==
    /\ Step
    /\ mode = "sim"
    /\ phase = "open"
    /\ can_skip(St).kind # "Empty"
    /\ LET c == can_skip(St)
           n == IF c.kind = "Millis" THEN c.ms ELSE 0
           r == tick(skip(St, n))
       IN /\ \E conts \in SUBSET {h \in Range(r.res) : cbs[h].shape = "periodic"} :
                 InstallSv(DispatchAll([st |-> r.st,
                                        call |-> Ticked(call, n + 1, r.res),
                                        cbs |-> cbs], r.res, conts))
          /\ lastRes' = r.res
          /\ lastOp' = [op |-> "next_event", id |-> 0, ok |-> TRUE, pre |-> c.kind]
    /\ UNCHANGED <<mode, chan, todo, running, phase, wpc, dlog>>

\* A receive that takes the newest command of the channel.
Recv_newest(ch) == [cmd |-> ch[Len(ch)], rest |-> SubSeq(ch, 1, Len(ch) - 1)]

\* Receiving from the channel: the oldest command, and what stays behind.
Recv(ch) == [cmd |-> Head(ch), rest |-> Tail(ch)]

\* The worker takes the oldest command from the channel and applies it.
WorkerApply ==
    /\ Step
    /\ mode = "thread"
    /\ Waiting
    /\ chan # <<>>
    /\ LET cmd == Recv(chan).cmd
           r == IF cmd.op = "cancel" THEN DoCancel(Sv, cmd.id)
                ELSE IF cmd.op = "stop" THEN [sv |-> DoStop(Sv), res |-> "Ok"]
                ELSE DoSchedule(Sv, cmd.h)
       IN /\ InstallSv(r.sv)
          /\ chan' = Recv(chan).rest
          /\ wpc' = IF cmd.op = "stop" THEN "done" ELSE wpc
          /\ dlog' = [dlog EXCEPT !.done = Append(@, [cmd |-> cmd, res |-> r.res])]
          /\ lastOp' = [op |-> "apply", id |-> cmd.id, ok |-> r.res = "Ok", pre |-> "-"]
    /\ lastRes' = lastRes
    /\ UNCHANGED <<mode, todo, running, phase>>

\* Time has passed: the worker skips what can_skip() allows (or nothing)
\* and ticks; the returned entries wait for their dispatch.
WorkerTick ==
    /\ Step
    /\ mode = "thread"
    /\ Waiting
    /\ can_skip(St).kind # "Empty"
    /\ LET c == can_skip(St)
       IN \E n \in {0} \cup (IF c.kind = "Millis" THEN {c.ms} ELSE {}) :
              LET r == tick(skip(St, n))
              IN /\ Install(r.st)
                 /\ call' = Ticked(call, n + 1, r.res)
                 /\ todo' = r.res
                 /\ lastRes' = r.res
                 /\ lastOp' = [op |-> "tick", id |-> 0, ok |-> TRUE, pre |-> c.kind]
    /\ UNCHANGED <<mode, cbs, chan, running, phase, wpc, dlog>>

\* The worker invokes the callback of the next returned entry.
WorkerInvoke ==
    /\ mode = "thread"
    /\ wpc = "run"
    /\ running = NoHandle
    /\ todo # <<>>
    /\ InstallSv(Invoke(Sv, Head(todo)))
    /\ running' = Head(todo)
    /\ todo' = Tail(todo)
    /\ UNCHANGED <<lastOp, lastRes, calls, mode, chan, phase, wpc, dlog, xvars>>

\* The callback the worker is executing returns.
WorkerReturn(cont) ==
    /\ mode = "thread"
    /\ wpc = "run"
    /\ running # NoHandle
    /\ InstallSv(Complete(Sv, running, cont))
    /\ running' = NoHandle
    /\ UNCHANGED <<lastOp, lastRes, calls, mode, chan, todo, phase, wpc, dlog,
                   xvars>>

InitTimer ==
    /\ wheel = EmptyWheel
    /\ timers = [i \in Ids |-> NoHandle]
    /\ ents = [h \in Handles |-> NoEntry]
    /\ held = {}
    /\ lastOp = [op |-> "new", id |-> 0, ok |-> TRUE, pre |-> "-"]
    /\ lastRes = <<>>
    /\ call = [h \in Handles |-> NoCall]
    /\ calls = 0
    /\ \E m \in {"sim", "thread"} : NewDriver(m)
    /\ NewHost

NextTimer ==
    \/ \E d \in TimerDelays : ScheduleOnce(d)
    \/ \E d \in TimerDelays, p \in TimerDelays : SchedulePeriodic(d, p)
    \/ \E id \in Ids : CancelTimer(id)
    \/ Shutdown
    \/ Join
    \/ NextEvent
    \/ WorkerApply
    \/ WorkerTick
    \/ WorkerInvoke
    \/ \E cont \in BOOLEAN : WorkerReturn(cont)

SpecTimer == InitTimer /\ [][NextTimer]_vars

\* ---------------------------------------------------- periodic timers (C21)
\* C21 (schedule_periodic): the callback of a periodic timer is invoked
\* first when the initial delay has passed and then each time the period
\* has passed since the invocation before, on exactly that tick; it is
\* never invoked after it said stop nor after a cancel that took effect,
\* and a timer that said stop is not scheduled again.
C21_Periodic ==
    \A h \in Handles : cbs[h].shape = "periodic" =>
        /\ ~cbs[h].after
        /\ cbs[h].stopped => timers[ents[h].id] # h
        /\ call[h].kind # "none" =>
              /\ call[h].ret <= 1
              /\ call[h].can = 0 => (call[h].ret = 1 <=> call[h].age >= call[h].delay)
              /\ call[h].can >= 1 => call[h].ret = 0
              /\ call[h].ret = 0 =>
                    call[h].delay = IF cbs[h].fired = 0 THEN cbs[h].initial
                                    ELSE cbs[h].period
              /\ (call[h].ret = 1 /\ h \notin Range(todo)) => cbs[h].fired >= 1

\* C21 witness: a periodic callback was invoked, said continue, was invoked
\* again one period later and said stop.
C21_Witness ==
    \E h \in Handles :
        /\ cbs[h].shape = "periodic"
        /\ cbs[h].fired = 2
        /\ cbs[h].stopped
        /\ call[h].delay = cbs[h].period
        /\ call[h].age = cbs[h].period

\* ------------------------------------------- cancel on the drivers (C22)
\* C22 (cancel prevents the invocation): on both drivers, a cancel(id) that
\* reaches the wheel while the timer of id is scheduled returns Ok, and no
\* later tick returns the entry; an entry whose cancel returned Ok has not
\* been returned since, waits for no dispatch and has no callback running.
C22_CancelPrevents ==
    /\ \A id \in Ids : timers[id] # NoHandle =>
           LET r == DoCancel(Sv, id)
           IN /\ r.res = "Ok"
              /\ \A j \in 1..R1Ticks :
                     timers[id] \notin Range(TickN(r.sv.st, R1Ticks).res[j])
    /\ \A h \in Handles : call[h].can >= 1 =>
           /\ call[h].ret = 0
           /\ h \notin Range(todo)
           /\ running # h
           /\ ~cbs[h].after

\* C22 witness: on the thread driver a cancel went through the channel and
\* returned Ok, and the tick on which the timer was due has passed without
\* it.
C22_Witness ==
    /\ mode = "thread"
    /\ Waiting
    /\ \E h \in Handles :
           /\ call[h].can = 1
           /\ call[h].age >= call[h].delay
           /\ cbs[h].fired = 0

\* ------------------------------------ cancel racing with expiry (C23)
\* The entry a timer id belongs to (the driver gives each timer its own id).
EntryOf(id) == CHOOSE h \in Handles : ents[h].id = id

\* A cancel was applied that was issued while the tick that returned its
\* entry was being dispatched.
Raced(k) == dlog.done[k].cmd.op = "cancel" /\ dlog.done[k].cmd.began

\* C23 as stated: a cancel issued after the tick that expires its timer
\* has begun finds the callback fired and reports NotFound.
C23_RaceNotFound ==
    \A k \in 1..Len(dlog.done) : Raced(k) =>
        /\ cbs[EntryOf(dlog.done[k].cmd.id)].fired >= 1
        /\ dlog.done[k].res = "NotFound"

\* C23 amended: such a cancel finds the callback fired (it ran to
\* completion before the worker took the cancel from the channel) and
\* reports NotFound, unless the timer is periodic and its callback said
\* continue: the entry is then scheduled again when the cancel is applied,
\* and the first such cancel reports Ok.
C23_RaceAfterDispatch ==
    /\ \A k \in 1..Len(dlog.done) : Raced(k) =>
           LET id == dlog.done[k].cmd.id
               h == EntryOf(id)
           IN /\ cbs[h].fired >= 1
              /\ dlog.done[k].res \in {"Ok", "NotFound"}
              /\ dlog.done[k].res = "Ok" <=>
                    /\ cbs[h].shape = "periodic"
                    /\ ~cbs[h].stopped
                    /\ \A j \in 1..(k - 1) :
                           ~(/\ dlog.done[j].cmd.op = "cancel"
                             /\ dlog.done[j].cmd.id = id
                             /\ dlog.done[j].res = "Ok")
    /\ \A k \in 1..Len(chan) : (chan[k].op = "cancel" /\ chan[k].began) =>
           LET h == EntryOf(chan[k].id)
           IN h \in Range(todo) \/ running = h \/ cbs[h].fired >= 1
    /\ running # NoHandle => wpc = "run" /\ cbs[running].fired >= 1

\* C23 witness: a cancel was issued while the callback of a one-shot timer
\* was executing; the callback returned, and the cancel reported NotFound.
C23_Witness ==
    \E k \in 1..Len(dlog.done) :
        /\ Raced(k)
        /\ dlog.done[k].res = "NotFound"
        /\ cbs[EntryOf(dlog.done[k].cmd.id)].shape = "once"
        /\ cbs[EntryOf(dlog.done[k].cmd.id)].fired = 1

\* ------------------------------------------- the command channel (C24)
\* The commands applied so far, oldest first.
DoneCmds == [k \in 1..Len(dlog.done) |-> dlog.done[k].cmd]

\* A call of the driver's surface, made on the caller's thread.
ApiCall == calls' # calls /\ lastOp'.op \in {"schedule", "cancel", "shutdown"}

\* C24 (FIFO channel, single owner): the commands the worker has applied,
\* followed by those still in the channel, are the commands sent, in the
\* order sent; and on the thread driver a call of the surface changes
\* neither the wheel nor timers: only the worker does.
C24_FifoSingleOwner ==
    /\ [](DoneCmds \o chan = dlog.sent)
    /\ [][(mode = "thread" /\ ApiCall) =>
             /\ wheel' = wheel
             /\ timers' = timers
             /\ held' = held
             /\ Len(dlog'.done) = Len(dlog.done)]_vars

\* C24 witness: on the thread driver the worker has applied a schedule and
\* then the cancel sent after it, which found the timer, and a third
\* command waits in the channel.
C24_Witness ==
    /\ mode = "thread"
    /\ Len(dlog.done) = 2
    /\ dlog.done[1].cmd.op \in {"once", "periodic"}
    /\ dlog.done[2].cmd.op = "cancel"
    /\ dlog.done[2].cmd.id = dlog.done[1].cmd.id
    /\ dlog.done[2].res = "Ok"
    /\ chan # <<>>

\* ------------------------------------------------------ shutdown (C25)
\* C25 (shutdown is terminal and idempotent): once shutdown() has been
\* called the driver never opens again; every later schedule_once,
\* schedule_periodic and cancel returns Shutdown and every later shutdown()
\* returns without failing, and none of these calls changes anything: no
\* entry is made, nothing is sent to the worker, the wheel stays as it is.
C25_ShutdownTerminal ==
    /\ [][phase # "open" => phase' # "open"]_vars
    /\ [][(phase # "open" /\ ApiCall) =>
             /\ lastOp'.op \in {"schedule", "cancel"} => dlog'.api = "Shutdown"
             /\ lastOp'.op = "shutdown" => dlog'.api = "Ok"
             /\ <<wheel, timers, ents, held, cbs, chan, todo, running, phase, wpc>>'
                    = <<wheel, timers, ents, held, cbs, chan, todo, running, phase, wpc>>
             /\ dlog'.sent = dlog.sent
             /\ dlog'.done = dlog.done]_vars

\* C25 witness: after shutdown() a schedule call returned Shutdown, and the
\* one stop command is all that shutdown ever sent.
C25_Witness ==
    /\ phase = "closed"
    /\ lastOp.op = "schedule"
    /\ dlog.api = "Shutdown"
    /\ Len(SelectSeq(dlog.sent, LAMBDA c : c.op = "stop")) = 1

\* ------------------------------------ no callback after shutdown (C26)
\* C26 (no callback after shutdown): once the shutdown has taken effect
\* (the driver has stopped) the entries that were still scheduled are gone
\* from the wheel and from timers, nothing waits for dispatch, no callback
\* is invoked any more and the worker stays terminated; shutdown() has
\* joined the worker only when it has terminated.
C26_NoCallbackAfterShutdown ==
    /\ [](wpc = "done" =>
             /\ \A id \in Ids : timers[id] = NoHandle
             /\ Pending(wheel) = 0
             /\ todo = <<>>
             /\ running = NoHandle
             /\ held = {}
             /\ chan = <<>>)
    /\ [](phase = "closed" => wpc = "done")
    /\ [][wpc = "done" => (wpc' = "done" /\ cbs' = cbs /\ timers' = timers)]_vars

\* C26 witness: the thread driver was shut down and joined while a timer
\* was still scheduled; its callback has not been invoked.
C26_Witness ==
    /\ mode = "thread"
    /\ phase = "closed"
    /\ \E h \in Handles :
           /\ call[h].kind = "ref"
           /\ call[h].ret = 0
           /\ call[h].can = 0
           /\ cbs[h].fired = 0

\* --------------------------------------- placement and visits (C27)
\* The number of times the weak handle of h is drained from a slot in the
\* next n ticks of the inner wheel, its expiry included.
RECURSIVE VisitsOf(_, _, _, _)
VisitsOf(h, w, strong, n) ==
    IF n = 0 \/ WeakCount(h, w) = 0 THEN 0
    ELSE LET t == WheelTick(w, strong)
             v == IF DrainedCount(h, w) > 0 THEN 1 ELSE 0
         IN IF Len(t.res) >= 0
            THEN v + VisitsOf(h, t.w, strong, n - 1)
            ELSE 0

\* The wheel after insert of a fresh entry [id, d], and the handles alive.
Placed(id, d) == insert(St, Fresh, [id |-> id, delay |-> d]).st

\* Runs that insert entries of their own ids with delays below one
\* revolution: one tick, a whole number of turns of the first wheel, a
\* delay with two non-zero bytes, and the longest the wheels take.
PlaceDelays == {1, WheelSize, WheelSize + 1, Cycle - 1}

PlaceInsert(id, d) ==
    /\ id \notin UsedIds
    /\ Insert(id, d)

NextPlace ==
    \/ \E id \in Ids, d \in PlaceDelays : PlaceInsert(id, d)
    \/ Tick
    \/ Drive
    \/ \E h \in Handles : Drop(h)

SpecPlace == Init /\ [][NextPlace]_vars

TopByte(n) == CHOOSE l \in Levels :
    /\ Digit(n, l) # 0
    /\ \A j \in Levels : j > l => Digit(n, j) = 0

\* The weak handles of h in the wheels below wheel l.
LowerCount(h, w, l) == SumOf(h, w, {p \in Levels \X SlotIdx : p[1] < l})

\* The wheels advance as one counter: wheel k moves one slot on when every
\* wheel below it rotates from its last slot to slot 0.
Advanced(w, v) ==
    \A k \in Levels :
        v.idx[k] = IF \A j \in Levels : j < k => w.idx[j] = WheelSize - 1
                   THEN (w.idx[k] + 1) % WheelSize
                   ELSE w.idx[k]

\* C28 as stated: every entry that a cascade drains from a wheel above the
\* first and that the pruner keeps is re-placed into a lower wheel.
C28_CascadeReplaces ==
    LET t == WheelTick(wheel, Strong(St))
    IN /\ Advanced(wheel, t.w)
       /\ \A p \in DrainedBy(wheel) :
              /\ t.w.slots[p[1]][p[2]] = <<>>
              /\ \A j \in 1..Len(wheel.slots[p[1]][p[2]]) :
                     LET x == wheel.slots[p[1]][p[2]][j]
                     IN (p[1] >= 1 /\ x.e \in Strong(St)) =>
                            LowerCount(x.e, t.w, p[1]) >= 1

\* C28 amended: when wheel k rotates from its last slot to slot 0, in tick
\* or in skip, wheel k+1 advances by exactly one and its newly current
\* slot is drained completely. A drained entry the pruner keeps is
\* re-placed into a lower wheel according to its remaining delay, or
\* returned by that very tick when no delay remains; one the pruner drops
\* is gone. What a tick returns had no delay remaining, and a skip that
\* can_skip() allows moves the counter and no entry.
C28_Cascade ==
    LET t == WheelTick(wheel, Strong(St))
        c == CanSkip(wheel)
        s == WheelSkip(wheel, c.ms, Strong(St))
    IN /\ Advanced(wheel, t.w)
       /\ \A p \in DrainedBy(wheel) :
              /\ t.w.slots[p[1]][p[2]] = <<>>
              /\ \A j \in 1..Len(wheel.slots[p[1]][p[2]]) :
                     LET x == wheel.slots[p[1]][p[2]][j]
                     IN IF x.e \notin Strong(St)
                        THEN WeakCount(x.e, t.w)
                                 = WeakCount(x.e, wheel) - DrainedCount(x.e, wheel)
                        ELSE IF x.rest = 0
                        THEN /\ x.e \in Range(t.res)
                             /\ LowerCount(x.e, t.w, p[1]) = LowerCount(x.e, wheel, p[1])
                        ELSE /\ p[1] >= 1
                             /\ x.rest < WheelSize ^ p[1]
                             /\ x.e \notin Range(t.res)
                             /\ CountOf(x.e, t.w.slots[TopByte(x.rest)]
                                                      [Digit(x.rest, TopByte(x.rest))])
                                  = 1 + CountOf(x.e, wheel.slots[TopByte(x.rest)]
                                                      [Digit(x.rest, TopByte(x.rest))])
       /\ \A h \in Range(t.res) :
              \/ \E p \in DrainedBy(wheel) :
                     \E j \in 1..Len(wheel.slots[p[1]][p[2]]) :
                         /\ wheel.slots[p[1]][p[2]][j].e = h
                         /\ wheel.slots[p[1]][p[2]][j].rest = 0
              \/ /\ OverflowScanned(wheel)
                 /\ \E j \in 1..Len(wheel.overflow) :
                        wheel.overflow[j] = [e |-> h, tick |-> Cycle]
       /\ c.kind = "Millis" =>
              /\ Now(s) = (Now(wheel) + c.ms) % Cycle
              /\ s.slots = wheel.slots
              /\ s.overflow = wheel.overflow

\* C28 witness: a tick has rotated the first wheel to slot 0 and drained a
\* slot of the second wheel, from where a live entry went down to the
\* first wheel with one tick to go.
C28_Witness ==
    /\ lastOp.op = "tick"
    /\ wheel.idx[0] = 0
    /\ \E h \in Handles :
           /\ Live(h)
           /\ Remaining(h) = 1
           /\ call[h].age >= 1
           /\ call[h].delay = WheelSize + 1
           /\ CountOf(h, wheel.slots[0][1]) = 1

\* --------------------------------------- no upgrade after cancel (C29)
\* C29 (no upgrade after cancel): once cancel(id) has returned Ok for an
\* entry, the weak handle the wheel still holds for it cannot be upgraded:
\* no strong handle to the entry is left, with the caller or in timers.
C29_NoUpgradeAfterCancel ==
    \A h \in Handles :
        (call[h].can >= 1 /\ WeakCount(h, wheel) > 0) => h \notin Strong(St)

\* ------------------------------------------- stale weak handles (C30)
\* C30 (stale handles are harmless): a tick returns an entry only on the
\* tick on which its most recent successful insertion is due, and a tick
\* takes a registration out of timers only for the entry it returns on
\* that entry's due tick: a weak handle left by an earlier insertion of
\* the entry, or of another entry of the same id, does neither.
C30_StaleHandleHarmless ==
    /\ \A h \in Range(lastRes) : call[h].age = call[h].delay
    /\ \A id \in Ids :
           (timers[id] # NoHandle /\ tick(St).st.timers[id] = NoHandle) =>
               /\ timers[id] \in Range(tick(St).res)
               /\ call[timers[id]].age + 1 = call[timers[id]].delay

\* ------------------------------------------------- no orphaned registration

\* Ticks after which every entry the model can schedule has come due: the
\* largest delay is Cycle + 1.
DrainTicks == Cycle + 2

\* The ids registered in timers.
Registered(st) == {i \in Ids : st.timers[i] # NoHandle}

\* C31 (no orphaned registration): in every state reached by insert,
\* insert_ref, cancel, tick and legal skip calls, the wheel (a slot or the
\* overflow list) holds a weak handle to the strong handle stored under each
\* id of timers; and ticking alone, with no cancel, removes every such id
\* from timers.
C31_NoOrphans ==
    /\ \A i \in Registered(St) : WeakCount(timers[i], wheel) >= 1
    /\ Registered(TickN(St, DrainTicks).st) = {}

\* A registration that has survived a tick (it was moved or passed by) and
\* is still backed by a weak handle in the wheel.
C31_Witness ==
    /\ lastOp.op = "tick"
    /\ \E i \in Registered(St) :
          /\ call[timers[i]].age >= 1
          /\ WeakCount(timers[i], wheel) >= 1
          /\ wheel.slots[0][wheel.idx[0]] = <<>>

\* ------------------------------------------------------------- the pruner

\* Number of times h occurs in a list of handles.
Occurs(h, q) == Cardinality({j \in 1..Len(q) : q[j] = h})

\* The weak handles of h that the inner wheel's next tick sheds without
\* returning them: those the pruner answered Drop for.
Shed(st, h) ==
    LET r == WheelTick(st.wheel, Strong(st))
    IN WeakCount(h, st.wheel) - WeakCount(h, r.w) - Occurs(h, r.res)

\* C32 (the pruner never drops a live entry): when the wheel's tick
\* consults rc_prune for a weak handle, in a cascade or at expiry, and the
\* entry's id is in timers with that same entry, the answer is Keep and the
\* wheel sheds none of its weak handles (each is re-placed or returned as
\* expired); the answer is Drop, and a weak handle is shed, only for a
\* handle with no strong handle left anywhere.
C32_PrunerKeepsLive ==
    \A h \in Handles :
        DrainedCount(h, wheel) > 0 =>
            /\ (timers[ents[h].id] = h =>
                   /\ rc_prune(StrongCount(St, h)) = "Keep"
                   /\ Shed(St, h) = 0)
            /\ (rc_prune(StrongCount(St, h)) = "Drop" =>
                   /\ h \notin Strong(St)
                   /\ Shed(St, h) = DrainedCount(h, wheel))
            /\ (Shed(St, h) > 0 => StrongCount(St, h) = 0)

\* C32 witness: the tick about to be taken cascades a slot above the first
\* wheel that holds the weak handle of a live entry, and drains the weak
\* handle of an entry with no strong handle left.
C32_Witness ==
    /\ calls < MaxCalls
    /\ \E h, g \in Handles :
          /\ ents[h] # NoEntry
          /\ timers[ents[h].id] = h
          /\ SumOf(h, wheel, {p \in DrainedBy(wheel) : p[1] >= 1}) > 0
          /\ DrainedCount(g, wheel) > 0
          /\ g \notin Strong(St)
          /\ Shed(St, g) > 0
          /\ Shed(St, h) = 0

\* ------------------------------------------------- insert does not panic

\* C33 (insert never panics): whenever insert_ref answers Expired to
\* insert(e), the handle insert created has one strong reference, insert's
\* own: timers does not hold it and the caller never saw it; so try_unwrap
\* succeeds, the original entry comes back and timers is as it was.
C33_InsertNoPanic ==
    \A id \in Ids, d \in Delays :
        Unused # {} =>
            LET e == [id |-> id, delay |-> d]
                q == insert_ref([St EXCEPT !.ents[Fresh] = e], Fresh)
                r == insert(St, Fresh, e)
            IN ~q.ok =>
                  /\ ~r.ok
                  /\ 1 + StrongCount(q.st, Fresh) = 1
                  /\ q.st.timers[id] # Fresh
                  /\ ~r.panic
                  /\ r.back = e
                  /\ r.st.timers = timers

\* C33 witness: an insert by value has just been answered Expired while
\* another entry is registered under the same id and waits in the wheel.
C33_Witness ==
    /\ lastOp.op = "insert"
    /\ ~lastOp.ok
    /\ timers[lastOp.id] # NoHandle
    /\ WeakCount(timers[lastOp.id], wheel) >= 1

\* ------------------------------------------------- configuration manager
\* The tables an xml directory can hold.
RoleRows == {<<i, n>> : i \in CellIds, n \in CellNames}
RoleTables ==
    {DataTable("roletable", rows) :
        rows \in UNION {[1..n -> RoleRows] : n \in 1..MaxRows}}
GConfigXml == DataTable("gconfig", << <<"1", "a">> >>)

\* The data schemas a load can produce: DataSchema::tables by name.
Schemas ==
    {NoDs, "gconfig" :> GConfigXml}
        \cup {"roletable" :> r : r \in RoleTables}
        \cup {"roletable" :> r @@ "gconfig" :> GConfigXml : r \in RoleTables}

TableNames == {"roletable", "gconfig"}

\* ConfigTable::get_cared_table of the table registered under a cid.
get_cared_table(cid) == IF cid = "Cid_Role" THEN "roletable" ELSE "gconfig"

\* RoleTable::load, rows i..: each row becomes a RoleConfig stored under
\* its id (0 and "" when the cell does not parse).
RECURSIVE RoleRowsFrom(_, _, _)
RoleRowsFrom(d, t, i) ==
    IF i >= Len(t.rows) THEN d
    ELSE LET id == get_value_u32(t, i, "id")
             name == get_value_String(t, i, "name")
         IN RoleRowsFrom([d EXCEPT ![IF id.some THEN id.v ELSE 0] =
                             IF name.some THEN name.v ELSE ""], t, i + 1)

\* The state of the manager and of the two table singletons.
Cfg == [config_tables |-> config_tables, datas |-> datas, g_config |-> g_config]

\* ConfigTable::load of the table under cid: [ok, cfg].
load(cfg, cid, ds) ==
    IF cid = "Cid_Role"
    THEN IF "roletable" \in DOMAIN ds
         THEN [ok |-> TRUE,
               cfg |-> [cfg EXCEPT !.datas = RoleRowsFrom(@, ds["roletable"], 0)]]
         ELSE [ok |-> FALSE, cfg |-> cfg]
    ELSE [ok |-> "gconfig" \in DOMAIN ds, cfg |-> cfg]

\* ConfigTable::clear: both tables implement it with an empty body.
clear(cfg, cid) == cfg

\* ConfigManager::register.
register(cfg, cid) == [cfg EXCEPT !.config_tables = @ \cup {cid}]

\* ConfigManager::init.
init(cfg) == register(register(cfg, "Cid_Game"), "Cid_Role")

\* clear() and then load(ds) on each table of the set S.
RECURSIVE ClearAll(_, _)
ClearAll(cfg, S) ==
    IF S = {} THEN cfg
    ELSE LET c == CHOOSE x \in S : TRUE IN ClearAll(clear(cfg, c), S \ {c})

RECURSIVE LoadAll(_, _, _)
LoadAll(cfg, S, ds) ==
    IF S = {} THEN cfg
    ELSE LET c == CHOOSE x \in S : TRUE IN LoadAll(load(cfg, c, ds).cfg, S \ {c}, ds)

\* ConfigManager::reload_all: every registered table is cleared, then
\* every one is loaded; a failed load is only logged.
reload_all(cfg, ds) ==
    [ok |-> TRUE, cfg |-> LoadAll(ClearAll(cfg, cfg.config_tables), cfg.config_tables, ds)]

\* ConfigManager::reload_tables: the body of the first loop is commented
\* out, so reloads stays empty and the second loop runs over nothing.
reload_tables(cfg, ds, tables) ==
    LET reloads == {}
    IN LoadAll(ClearAll(cfg, reloads), reloads, ds)

InstallCfg(cfg) ==
    /\ config_tables' = cfg.config_tables
    /\ datas' = cfg.datas
    /\ g_config' = cfg.g_config
    /\ UNCHANGED <<tvars, bvars, lvars, avars>>

\* ConfigManager::init().
CfgInit ==
    /\ InstallCfg(init(Cfg))
    /\ cfgOp' = [op |-> "init", ds |-> NoDs, tables |-> {}, pre |-> datas,
                 ok |-> TRUE]

\* ConfigManager::register(table).
Register(cid) ==
    /\ InstallCfg(register(Cfg, cid))
    /\ cfgOp' = [op |-> "register", ds |-> NoDs, tables |-> {}, pre |-> datas,
                 ok |-> TRUE]

\* ConfigManager::reload_all(ds).
ReloadAll(ds) ==
    /\ InstallCfg(reload_all(Cfg, ds).cfg)
    /\ cfgOp' = [op |-> "reload_all", ds |-> ds, tables |-> {}, pre |-> datas,
                 ok |-> reload_all(Cfg, ds).ok]

\* ConfigManager::reload_tables(ds, tables).
ReloadTables(ds, tables) ==
    /\ InstallCfg(reload_tables(Cfg, ds, tables))
    /\ cfgOp' = [op |-> "reload_tables", ds |-> ds, tables |-> tables,
                 pre |-> datas, ok |-> TRUE]

NextConfig ==
    \/ CfgInit
    \/ \E cid \in Cids : Register(cid)
    \/ \E ds \in Schemas : ReloadAll(ds)
    \/ \E ds \in Schemas, tables \in SUBSET TableNames : ReloadTables(ds, tables)

SpecConfig == Init /\ [][NextConfig]_vars

\* C34 (reload_tables): after reload_tables(ds, tables) every registered
\* table whose name is in the requested set holds exactly what the new data
\* schema gives it (it was cleared, then reloaded), and a table that is
\* not referenced is as it was before the call.
C34_ReloadTables ==
    cfgOp.op = "reload_tables" =>
        IF "Cid_Role" \in config_tables /\ "roletable" \in cfgOp.tables
        THEN datas = load([Cfg EXCEPT !.datas = NoDatas], "Cid_Role", cfgOp.ds).cfg.datas
        ELSE datas = cfgOp.pre

\* ------------------------------------------------- reading a data table
\* Row indices asked for: inside the largest table and past its end.
GetRows == 0..(MaxRows + 1)

Columns == {"id", "name", "level"}

\* DataTable::set_data(data) on the table.
SetData(rows) ==
    /\ table' = DataTable(table.name, rows)
    /\ getOp' = [NoGet EXCEPT !.op = "set_data"]
    /\ UNCHANGED <<tvars, cvars, lvars, avars>>

\* DataTable::get(row, column) on the table.
Get(row, column) ==
    /\ getOp' = [op |-> "get", row |-> row, column |-> column,
                 res |-> get(table, row, column)]
    /\ UNCHANGED <<tvars, cvars, lvars, avars, table>>

NextTable ==
    \/ \E rows \in UNION {[1..n -> RoleRows] : n \in 0..MaxRows} : SetData(rows)
    \/ \E row \in GetRows, column \in Columns : Get(row, column)

SpecTable == Init /\ [][NextTable]_vars

\* C35 (DataTable::get): row is a zero-based index; get reports an error
\* (here: it panics, the only error a String result leaves) for every row
\* at or past rows.len(), an empty table included, and for a row inside the
\* table it returns a cell of that very row.
C35_GetRow ==
    getOp.op = "get" =>
        IF getOp.row >= Len(table.rows)
        THEN getOp.res.kind = "panic"
        ELSE /\ getOp.res.kind = "value"
             /\ getOp.res.v \in Range(table.rows[getOp.row + 1])

\* -------------------------------------------------- loading a data schema
\* The listings get_just_current_file can return for the xml directory.
Listings ==
    {<<>>, <<"roletable">>, <<"gconfig">>, <<"roletable", "gconfig">>,
     <<"gconfig", "roletable">>}

NoTable == EmptyTable("")

\* XmlReader::read_data_table(file): what a file can be read as; ok = FALSE
\* is Err (missing, empty or malformed file).
ReadResults(file) ==
    {[ok |-> FALSE, content |-> NoTable]}
        \cup {[ok |-> TRUE, content |-> t] :
                t \in IF file = "roletable" THEN RoleTables ELSE {GConfigXml}}

\* load_data_schema_from_xml, up to the call of load_xml: a new loader with
\* the user callback and the files of the directory.
LoadDataSchema(files) ==
    /\ lpc = "new"
    /\ need_load_tables' = files
    /\ dc' = NoDs
    /\ pos' = 0
    /\ lpc' = "read"
    /\ UNCHANGED <<tvars, cvars, bvars, avars, tasks, runs>>

\* do_load_xml, one turn of the loop: a table that was read is stored in
\* dc under its name; a file that was not is passed over.
ReadTable(res) ==
    /\ lpc = "read"
    /\ pos < Len(need_load_tables)
    /\ res \in ReadResults(need_load_tables[pos + 1])
    /\ dc' = IF res.ok
             THEN [n \in DOMAIN dc \cup {res.content.name} |->
                     IF n = res.content.name THEN res.content ELSE dc[n]]
             ELSE dc
    /\ pos' = pos + 1
    /\ UNCHANGED <<tvars, cvars, bvars, avars, need_load_tables, lpc, tasks, runs>>

\* do_load_xml after the loop, `let f = (*cbb)(db)`: the loader calls the
\* user callback itself, with a copy of dc; the callback of
\* cli_app_startup reloads every configuration table. f is the unit value.
CallCb ==
    /\ lpc = "read"
    /\ pos = Len(need_load_tables)
    /\ runs' = Append(runs, [by |-> "loader", ds |-> dc, posted |-> FALSE])
    /\ LET cfg == reload_all(Cfg, dc).cfg
       IN /\ config_tables' = cfg.config_tables
          /\ datas' = cfg.datas
          /\ g_config' = cfg.g_config
    /\ cfgOp' = [op |-> "reload_all", ds |-> dc, tables |-> {}, pre |-> datas,
                 ok |-> TRUE]
    /\ lpc' = "post"
    /\ UNCHANGED <<tvars, bvars, avars, need_load_tables, pos, dc, tasks>>

\* do_load_xml, `srv.run_in_service(Box::new(move || f))`: the task posted
\* is a closure that returns the unit value f.
Post ==
    /\ lpc = "post"
    /\ tasks' = Append(tasks, "unit")
    /\ lpc' = "done"
    /\ UNCHANGED <<tvars, cvars, bvars, avars, need_load_tables, pos, dc, runs>>

\* The service thread runs the oldest task posted to it: the closure
\* returns the unit value it captured, and nothing else happens.
ServiceRun ==
    /\ tasks # <<>>
    /\ tasks' = Tail(tasks)
    /\ UNCHANGED <<tvars, cvars, bvars, avars, need_load_tables, pos, dc, lpc, runs>>

NextLoader ==
    \/ CfgInit
    \/ \E files \in Listings : LoadDataSchema(files)
    \/ \E res \in UNION {ReadResults(f) : f \in TableNames} : ReadTable(res)
    \/ CallCb
    \/ Post
    \/ ServiceRun

SpecLoader == Init /\ [][NextLoader]_vars

\* C36 (callback on the service thread): the user callback is executed
\* only by the service thread, as the task handed to run_in_service and so
\* after that task was posted, at most once, and exactly once when the load
\* is over and the service has run everything posted to it.
C36_CallbackInService ==
    /\ \A j \in 1..Len(runs) : runs[j].by = "service" /\ runs[j].posted
    /\ Len(runs) <= 1
    /\ (lpc = "done" /\ tasks = <<>>) => Len(runs) = 1

\* ------------------------------------------------------------- the App
\* App::run's test after a wake-up that looks at one service only.
exitflag_any(svcs, st) == \E j \in 1..Len(svcs) : st[svcs[j]] = "Closed"

\* App::run, the loop over the services after a wake-up: exitflag stays
\* true iff no service is found in a state other than Closed.
exitflag(svcs, st) == \A j \in 1..Len(svcs) : st[svcs[j]] = "Closed"

\* App::run, `for w in &self.services { w.srv.join(); }`.
JoinAll(svcs, jn) ==
    [o \in SrvObjs |-> jn[o] + Cardinality({j \in 1..Len(svcs) : svcs[j] = o})]

\* App::init(creator, initializer) with a creator that yields srv.
AppInit(srv) ==
    /\ apc = "setup"
    /\ LET a == attach(services, started, srv)
       IN /\ services' = a.services
          /\ started' = a.started
    /\ appOp' = [op |-> "attach", srv |-> srv, pre |-> services, checked |-> FALSE]
    /\ UNCHANGED <<tvars, cvars, bvars, lvars, nstate, apc, joined>>

\* The initializer of a started service sets its state to Start.
ServiceStart(o) ==
    /\ o \in started
    /\ nstate[o] = "Idle"
    /\ nstate' = [nstate EXCEPT ![o] = "Start"]
    /\ UNCHANGED <<tvars, cvars, bvars, lvars, services, started, apc, joined, appOp>>

\* A started service shuts down: its state becomes Closed and stays so.
ServiceClose(o) ==
    /\ o \in started
    /\ nstate[o] # "Closed"
    /\ nstate' = [nstate EXCEPT ![o] = "Closed"]
    /\ UNCHANGED <<tvars, cvars, bvars, lvars, services, started, apc, joined, appOp>>

\* App::run is called and blocks in cvar.wait.
Run ==
    /\ apc = "setup"
    /\ apc' = "wait"
    /\ appOp' = [op |-> "run", srv |-> "", pre |-> services, checked |-> FALSE]
    /\ UNCHANGED <<tvars, cvars, bvars, lvars, services, started, nstate, joined>>

\* cvar.wait returns: the exit condition variable was notified.
Wake ==
    /\ apc = "wait"
    /\ apc' = "woken"
    /\ appOp' = [op |-> "wake", srv |-> "", pre |-> services, checked |-> FALSE]
    /\ UNCHANGED <<tvars, cvars, bvars, lvars, services, started, nstate, joined>>

\* App::run after a wake-up: with every service Closed it joins them all
\* and returns; otherwise it goes back to cvar.wait.
Check ==
    /\ apc = "woken"
    /\ IF exitflag(services, nstate)
       THEN /\ joined' = JoinAll(services, joined)
            /\ apc' = "returned"
       ELSE /\ joined' = joined
            /\ apc' = "wait"
    /\ appOp' = [op |-> "check", srv |-> "", pre |-> services,
                 checked |-> exitflag(services, nstate)]
    /\ UNCHANGED <<tvars, cvars, bvars, lvars, services, started, nstate>>

NextApp ==
    \/ \E srv \in SrvObjs : AppInit(srv)
    \/ \E o \in SrvObjs : ServiceStart(o)
    \/ \E o \in SrvObjs : ServiceClose(o)
    \/ Run
    \/ Wake
    \/ Check

SpecApp == Init /\ [][NextApp]_vars

\* C37 (unique service ids): after any sequence of attach and init calls
\* no two entries of App.services have the same handle id; an attach of a
\* service whose id is already registered leaves the list as it was, and
\* any other attach appends the service.
C37_UniqueIds ==
    /\ \A i, j \in 1..Len(services) :
          i # j => SrvId[services[i]] # SrvId[services[j]]
    /\ appOp.op = "attach" =>
          IF \E j \in 1..Len(appOp.pre) : SrvId[appOp.pre[j]] = SrvId[appOp.srv]
          THEN services = appOp.pre
          ELSE services = Append(appOp.pre, appOp.srv)

\* C37 witness: a service object that is not in the list was attached
\* while another object with its id was registered, and the list kept its
\* three entries.
C37_Witness ==
    /\ appOp.op = "attach"
    /\ appOp.srv \notin Range(services)
    /\ services = appOp.pre
    /\ Len(services) = 3

\* The services of the list that are not Closed.
Open == {j \in 1..Len(services) : nstate[services[j]] # "Closed"}

\* C38 (App::run): run returns only from a wake-up of the exit condition
\* variable at whose check every service of the list is Closed, having
\* joined every one of them exactly once; until then, and so while any
\* service is not Closed, it joins nothing and goes on waiting.
C38_RunWaits ==
    /\ [](apc = "returned" =>
            /\ Open = {}
            /\ \A j \in 1..Len(services) : joined[services[j]] = 1)
    /\ [](apc # "returned" => \A o \in SrvObjs : joined[o] = 0)
    /\ [][(apc' = "returned" /\ apc # "returned") =>
             (apc = "woken" /\ Open = {})]_vars
    /\ [][(apc \in {"wait", "woken"} /\ Open # {}) =>
             (apc' \in {"wait", "woken"} /\ joined' = joined)]_vars

\* C38 witness: run has returned from an App with three services, after
\* the check that found them all Closed.
C38_Witness ==
    /\ apc = "returned"
    /\ appOp.op = "check"
    /\ appOp.checked
    /\ Len(services) = 3
    /\ \A j \in 1..Len(services) : joined[services[j]] = 1

====
